---------------------------- MODULE Spec2Model ----------------------------
(***************************************************************************)
(* Model of the pkgcheck check pipeline: the pipeline planner plug() and   *)
(* the CheckRunner that drives a pipeline tree (src/src/pkgcheck/base.py). *)
(***************************************************************************)
EXTENDS Integers, Sequences, FiniteSets, TLC

(***************************************************************************)
(* Feed types and scopes (base.py:26-34).                                  *)
(***************************************************************************)
package_feed == "cat/pkg"
versioned_feed == "cat/pkg-ver"
version_scope == 0
package_scope == 1

\* The feed types and scopes the planner inputs are drawn from.
Feeds == {versioned_feed, package_feed}
Scopes == {version_scope, package_scope}

(***************************************************************************)
(* Bounds of the model.                                                    *)
(***************************************************************************)
MaxCost == 1
MaxPriority == 1

Costs == 0..MaxCost
Priorities == 0..MaxPriority

\* how many sinks, sources and transforms a call of plug() is given
SinkCounts == 0..2
SourceCounts == 0..2
TransformCounts == 0..2

\* Template.priority (base.py:109)
default_priority == 0

\* best_cost = None (base.py:553)
NoCost == -1
\* the local variable `source` of plug() before any loop has bound it
NoSource == [feed_type |-> "none", scope |-> -1, cost |-> 0]

(***************************************************************************)
(* The three plugin shapes, by the attributes plug() reads.                *)
(***************************************************************************)
SourceUniverse(costs) == [feed_type : Feeds, scope : Scopes, cost : costs]
TransformUniverse(costs) ==
    {t \in [source : Feeds, dest : Feeds, scope : Scopes, cost : costs] :
        t.source # t.dest}

\* a sink is identified by its position in the sequence given to plug()
SinkSeqs(prios) ==
    UNION {{[i \in 1..n |-> [id |-> i, feed_type |-> a[i][1],
                             scope |-> a[i][2], priority |-> a[i][3]]] :
              a \in [1..n -> Feeds \X Scopes \X prios]} :
           n \in SinkCounts}

VARIABLES
    sinks,          \* plug(sinks, ...): sequence of check instances
    transforms,     \* plug(.., transforms, ..): the transform classes
    sources,        \* plug(.., sources): the source instances
    pc,             \* position of plug()
    bad_sinks,      \* base.py:509
    good_sinks,     \* base.py:508
    unprocessed,    \* base.py:543 / base.py:591
    pipes,          \* base.py:542
    done,           \* base.py:594
    pipes_to_run,   \* base.py:552 (<<>> stands for None)
    best_cost,      \* base.py:553
    source,         \* plug()'s local `source`, read by build_transform
    result,         \* base.py:639
    first_outcome   \* the outcome of an earlier call with the same arguments

plugVars == <<sinks, transforms, sources, pc, bad_sinks, good_sinks,
              unprocessed, pipes, done, pipes_to_run, best_cost, source,
              result, first_outcome>>

VARIABLES
    tree,             \* the CheckRunner at the root of a pipeline tree
    debug,            \* options.debug of the host
    stage,            \* how far the run of the tree has come
    calls,            \* the calls made on the root so far, with what each raised
    reports,          \* what reporter.add_report() has been given, in order
    metadata_errors,  \* CheckRunner._metadata_errors, of every runner of the tree
    raised_meta,      \* the (pkg, error) pairs raised so far by start or feed
    start_log,        \* the children reached by start, in order
    feed_log,         \* the children reached by the last feed, in order
    finish_log,       \* the children reached by finish, in order
    faults            \* what the children reached by the last call raised

runnerVars == <<tree, debug, stage, calls, reports, metadata_errors,
                raised_meta, start_log, feed_log, finish_log, faults>>

VARIABLES
    check,            \* the check a CheckRunner wraps, by class name
    stable_arches,    \* options.stable_arches
    pkgset,           \* the package set fed to the check
    emitted,          \* the results the check gave to the reporter, in order
    self_arch_restricts \* UnstableOnlyReport.arch_restricts: its keys, in order

checkVars == <<check, stable_arches, pkgset, emitted, self_arch_restricts>>

VARIABLES
    reporter,         \* the reporter: its class and what __init__ set
    first_report,     \* StrReporter._first_report
    key,              \* FancyReporter.key
    out,              \* what was written to the formatter, line by line
    events,           \* the calls made on the reporter, with what each raised
    processed,        \* the results process_report was given, in order
    child_events      \* MultiplexReporter: the calls each child received

reporterVars == <<reporter, first_report, key, out, events, processed,
                  child_events>>

VARIABLES
    tok,              \* the token given to convert_check_filter
    name,             \* the qualified name given to the filter function
    verdict           \* what the filter function returned or raised

filterVars == <<tok, name, verdict>>

VARIABLES
    patterns,         \* the tokens given to Whitelist and to Blacklist
    objs,             \* the checks before any filter, by qualified name
    kept,             \* the checks the filters applied so far have kept
    applied           \* the filters applied so far, in order

checksetVars == <<patterns, objs, kept, applied>>

\* no check set has been configured
ChecksetIdle ==
    /\ patterns = [Whitelist |-> <<>>, Blacklist |-> <<>>]
    /\ objs = <<>>
    /\ kept = <<>>
    /\ applied = <<"idle">>

VARIABLES
    kind,             \* the result class
    instance,         \* the result: its slots and its __dict__
    pickled,          \* what instance.__getstate__() returned or raised
    given,            \* the data given to __setstate__ of a fresh instance
    restored,         \* the attributes of the fresh instance
    unpickled         \* what __setstate__ returned or raised

stateVars == <<kind, instance, pickled, given, restored, unpickled>>

\* no result is being serialized
StateIdle ==
    /\ kind = "none"
    /\ instance = <<>>
    /\ pickled = [returned |-> "idle", data |-> <<>>]
    /\ given = [returned |-> "idle", data |-> <<>>]
    /\ restored = <<>>
    /\ unpickled = "idle"

VARIABLES
    options,          \* the parsed options main() is given
    main_pc,          \* position of main()
    seen,             \* pcheck.py:193
    runner,           \* the Feeder: its repo, cat, pkg and version checks
    main_reporter,    \* the reporter made by main(): how far it has come
    ran,              \* the limiters runner.run() was called with, in order
    returned          \* <<>>, or <<value>> once main() has returned

mainVars == <<options, main_pc, seen, runner, main_reporter, ran, returned>>

\* main() is not running
MainIdle ==
    /\ options = [list_checks |-> FALSE]
    /\ main_pc = [at |-> "idle", i |-> 0]
    /\ seen = {}
    /\ runner = <<>>
    /\ main_reporter = [kls |-> "none", stage |-> "none"]
    /\ ran = <<>>
    /\ returned = <<>>

VARIABLES
    template,         \* a check: the known_results it declares
    delivered,        \* the results reporter.add_report was given, in order
    run               \* how the run of the check's CheckRunner stands

sinkVars == <<template, delivered, run>>

\* no declared check is being run
SinkIdle ==
    /\ template = [known_results |-> {}]
    /\ delivered = <<>>
    /\ run = [stage |-> "idle", fed |-> 0]

restVars == <<checksetVars, stateVars, mainVars, sinkVars>>
RestIdle == ChecksetIdle /\ StateIdle /\ MainIdle /\ SinkIdle

vars == <<plugVars, runnerVars, checkVars, reporterVars, filterVars, restVars>>
otherThanPlug == <<runnerVars, checkVars, reporterVars, filterVars, restVars>>
otherThanRunner == <<plugVars, checkVars, reporterVars, filterVars, restVars>>
otherThanCheck == <<plugVars, reporterVars, filterVars, restVars>>
otherThanReporter == <<plugVars, runnerVars, checkVars, filterVars, restVars>>
otherThanFilter == <<plugVars, runnerVars, checkVars, reporterVars, restVars>>
coreVars == <<plugVars, runnerVars, checkVars, reporterVars, filterVars>>
otherThanCheckset == <<coreVars, stateVars, mainVars, sinkVars>>
otherThanState == <<coreVars, checksetVars, mainVars, sinkVars>>
otherThanMain == <<coreVars, checksetVars, stateVars, sinkVars>>
otherThanSink == <<coreVars, checksetVars, stateVars, mainVars>>

(***************************************************************************)
(* Small helpers.                                                          *)
(***************************************************************************)
SeqToSet(s) == {s[i] : i \in 1..Len(s)}

Min(S) == CHOOSE x \in S : \A y \in S : x <= y
Max(S) == CHOOSE x \in S : \A y \in S : x >= y

RECURSIVE SumCost(_)
SumCost(S) ==
    IF S = {} THEN 0
    ELSE LET x == CHOOSE y \in S : TRUE IN x.cost + SumCost(S \ {x})

(***************************************************************************)
(* base.py:488-505: the feed types a source reaches, and best_scope.       *)
(***************************************************************************)
RECURSIVE Closure(_, _, _)
Closure(reachable, src, trs) ==
    LET new == {t.dest : t \in {u \in trs : /\ u.source \in reachable
                                            /\ u.scope <= src.scope
                                            /\ u.dest \notin reachable}}
    IN IF new = {} THEN reachable ELSE Closure(reachable \cup new, src, trs)

reachable(src, trs) == Closure({src.feed_type}, src, trs)

HasBestScope(ft, srcs, trs) == \E s \in srcs : ft \in reachable(s, trs)
best_scope(ft, srcs, trs) ==
    Max({s.scope : s \in {u \in srcs : ft \in reachable(u, trs)}})

(***************************************************************************)
(* base.py:507-515: throw out unreachable sinks.                           *)
(***************************************************************************)
IsBadSink(sink, srcs, trs) ==
    \/ ~HasBestScope(sink.feed_type, srcs, trs)
    \/ sink.scope > best_scope(sink.feed_type, srcs, trs)

RECURSIVE split_sinks(_, _, _, _)
split_sinks(snks, srcs, trs, bad) ==
    IF snks = <<>> THEN <<>>
    ELSE (IF IsBadSink(Head(snks), srcs, trs) = bad
          THEN <<Head(snks)>> ELSE <<>>)
         \o split_sinks(Tail(snks), srcs, trs, bad)

(***************************************************************************)
(* base.py:521-539: usable sources and the cheapest one per (scope, feed). *)
(***************************************************************************)
lowest_required_scope(good) == Min({good[i].scope : i \in 1..Len(good)})

\* a planner that also drops the sources of the least required scope
usable_sources_strict(srcs, good) ==
    {s \in srcs : s.scope > lowest_required_scope(good)}

\* base.py:523-525
usable_sources(srcs, good) ==
    {s \in srcs : s.scope >= lowest_required_scope(good)}

source_map(srcs) ==
    {s \in srcs : \A o \in srcs :
        (o.scope = s.scope /\ o.feed_type = s.feed_type) => s.cost <= o.cost}

sink_types(good) == {good[i].feed_type : i \in 1..Len(good)}

(***************************************************************************)
(* base.py:541-579: the single-pipeline search.  A pipe is the tuple       *)
(* (visited_types, source, transforms, price).                             *)
(***************************************************************************)
initial_pipes(srcs) ==
    {[visited |-> {s.feed_type}, source |-> s, trans |-> {}, cost |-> s.cost] :
        s \in srcs}

\* base.py:560 / base.py:601: visited >= sink_types
Covers(visited, types) == types \subseteq visited

\* a planner that keeps the first plan it finds
Improves_first(best, cost) == best = NoCost

\* base.py:563 / base.py:603
Improves(best, cost) == best = NoCost \/ cost < best

\* a planner that stops growing pipes once any plan is found
Dominated_eager(best, cost) == best # NoCost

\* base.py:568 / base.py:607
Dominated(best, cost) == best # NoCost /\ best <= cost

\* a planner that follows a transform back to a feed type it has visited
Applicable_revisits(t, pipe) ==
    /\ pipe.source.scope >= t.scope
    /\ t.source \in pipe.visited

\* base.py:572-574
Applicable(t, pipe) ==
    /\ pipe.source.scope >= t.scope
    /\ t.source \in pipe.visited
    /\ t.dest \notin pipe.visited

\* base.py:571-577
grow(pipe, trs) ==
    {[visited |-> pipe.visited \cup {t.dest}, source |-> pipe.source,
      trans |-> pipe.trans \cup {t}, cost |-> pipe.cost + t.cost] :
        t \in {u \in trs : Applicable(u, pipe)}}

(***************************************************************************)
(* base.py:581-617: combinations of pipes of distinct sources.             *)
(***************************************************************************)
initial_combinations(ps) ==
    {[visited |-> p.visited, sources |-> {p.source},
      seq |-> <<[source |-> p.source, trans |-> p.trans]>>,
      cost |-> p.cost] : p \in ps}

\* base.py:610-617
combine(comb, ps) ==
    {[visited |-> comb.visited \cup p.visited,
      sources |-> comb.sources \cup {p.source},
      seq |-> Append(comb.seq, [source |-> p.source, trans |-> p.trans]),
      cost |-> comb.cost + p.cost] :
        p \in {q \in ps : q.source \notin comb.sources}}

(***************************************************************************)
(* base.py:622: good_sinks.sort(key=attrgetter('priority')), a stable sort.*)
(***************************************************************************)
RECURSIVE sort_from(_, _)
sort_from(s, prios) ==
    IF prios = {} THEN <<>>
    ELSE LET p == Min(prios)
         IN SelectSeq(s, LAMBDA k : k.priority = p)
            \o sort_from(s, prios \ {p})

sort_by_priority(s) == sort_from(s, {s[i].priority : i \in 1..Len(s)})

(***************************************************************************)
(* base.py:624-637: build_transform.  `pool` is good_sinks, which the code *)
(* modifies in place; `order` is the iteration order of the frozenset of   *)
(* transforms; `src` is the value of plug()'s local `source`.              *)
(***************************************************************************)
\* base.py:634
SinkFits(sink, feed_type, src) ==
    sink.feed_type = feed_type /\ sink.scope <= src.scope

\* base.py:630
TransformFits(t, feed_type, scope) ==
    t.source = feed_type /\ t.scope <= scope

\* base.py:632-636: for i in reversed(range(len(good_sinks)))
RECURSIVE take_sinks(_, _, _, _)
take_sinks(pool, i, feed_type, src) ==
    IF i < 1 THEN [taken |-> <<>>, pool |-> pool]
    ELSE IF SinkFits(pool[i], feed_type, src)
         THEN LET rest == take_sinks(SubSeq(pool, 1, i - 1) \o
                                     SubSeq(pool, i + 1, Len(pool)),
                                     i - 1, feed_type, src)
              IN [taken |-> <<[kind |-> "sink", sink |-> pool[i]]>>
                            \o rest.taken,
                  pool |-> rest.pool]
         ELSE take_sinks(pool, i - 1, feed_type, src)

RECURSIVE build_transform(_, _, _, _, _, _)
RECURSIVE build_children(_, _, _, _, _, _, _)
build_children(scope, feed_type, trs, order, i, pool, src) ==
    IF i > Len(order) THEN [children |-> <<>>, pool |-> pool]
    ELSE IF order[i] \in trs /\ TransformFits(order[i], feed_type, scope)
         THEN LET sub == build_transform(scope, order[i].dest, trs, order,
                                         pool, src)
                  rest == build_children(scope, feed_type, trs, order, i + 1,
                                         sub.pool, src)
              IN [children |-> <<[kind |-> "transform", trans |-> order[i],
                                  child |-> sub.node]>> \o rest.children,
                  pool |-> rest.pool]
         ELSE build_children(scope, feed_type, trs, order, i + 1, pool, src)

build_transform(scope, feed_type, trs, order, pool, src) ==
    LET tr == build_children(scope, feed_type, trs, order, 1, pool, src)
        tk == take_sinks(tr.pool, Len(tr.pool), feed_type, src)
    IN [node |-> [checks |-> tr.children \o tk.taken], pool |-> tk.pool]

\* base.py:639-641
RECURSIVE build_result(_, _, _, _, _)
build_result(plan, i, order, pool, src) ==
    IF i > Len(plan) THEN [result |-> <<>>, pool |-> pool]
    ELSE LET one == build_transform(plan[i].source.scope,
                                    plan[i].source.feed_type,
                                    plan[i].trans, order, pool, src)
             rest == build_result(plan, i + 1, order, one.pool, src)
         IN [result |-> <<[source |-> plan[i].source, runner |-> one.node]>>
                        \o rest.result,
             pool |-> rest.pool]

\* the orders in which a set can be iterated
Orders(S) ==
    {o \in [1..Cardinality(S) -> S] : \A i, j \in 1..Cardinality(S) :
        i # j => o[i] # o[j]}

(***************************************************************************)
(* The state before plug(sinks, transforms, sources) is called.            *)
(***************************************************************************)
NoOutcome == [pc |-> "none"]

PlugLocals ==
    /\ bad_sinks = <<>>
    /\ good_sinks = <<>>
    /\ unprocessed = {}
    /\ pipes = {}
    /\ done = {}
    /\ pipes_to_run = <<>>
    /\ best_cost = NoCost
    /\ source = NoSource
    /\ result = <<>>

\* no pipeline tree is being run
RunnerIdle ==
    /\ tree = [checks |-> <<>>]
    /\ debug = FALSE
    /\ stage = "idle"
    /\ calls = <<>>
    /\ reports = <<>>
    /\ metadata_errors = {}
    /\ raised_meta = {}
    /\ start_log = <<>>
    /\ feed_log = <<>>
    /\ finish_log = <<>>
    /\ faults = {}

\* no check filter has been made
FilterIdle ==
    /\ tok = <<>>
    /\ name = <<>>
    /\ verdict = "idle"

\* no reporter has been made
ReporterIdle ==
    /\ reporter = [kls |-> "none"]
    /\ first_report = TRUE
    /\ key = <<>>
    /\ out = <<>>
    /\ events = <<>>
    /\ processed = <<>>
    /\ child_events = <<>>

\* no check is being run
CheckIdle ==
    /\ check = "none"
    /\ stable_arches = {}
    /\ pkgset = <<>>
    /\ emitted = <<>>
    /\ self_arch_restricts = <<>>

PlugInit(prios, costs) ==
    /\ RunnerIdle
    /\ CheckIdle
    /\ ReporterIdle
    /\ FilterIdle
    /\ RestIdle
    /\ sinks \in SinkSeqs(prios)
    /\ sources \in {S \in SUBSET SourceUniverse(costs) :
                       Cardinality(S) \in SourceCounts}
    /\ transforms \in {T \in SUBSET TransformUniverse(costs) :
                          Cardinality(T) \in TransformCounts}
    /\ pc = "call"
    /\ first_outcome = NoOutcome
    /\ PlugLocals

Final == {"returned", "assert_sinks", "assert_solution", "assert_sinks_left"}

(***************************************************************************)
(* base.py:482-548: from the call to the first search loop.                *)
(***************************************************************************)
PlugCall ==
    /\ pc = "call"
    /\ UNCHANGED <<sinks, transforms, sources, pipes, done, pipes_to_run,
                   best_cost, source, result, first_outcome>>
    /\ IF sinks = <<>>
       THEN /\ pc' = "assert_sinks"
            /\ UNCHANGED <<bad_sinks, good_sinks, unprocessed>>
       ELSE LET good == split_sinks(sinks, sources, transforms, FALSE)
                bad == split_sinks(sinks, sources, transforms, TRUE)
            IN IF good = <<>>
               THEN /\ pc' = "returned"
                    /\ bad_sinks' = bad
                    /\ UNCHANGED <<good_sinks, unprocessed>>
               ELSE IF usable_sources(sources, good) = {}
               THEN /\ pc' = "returned"
                    /\ bad_sinks' = bad \o good
                    /\ UNCHANGED <<good_sinks, unprocessed>>
               ELSE /\ pc' = "single"
                    /\ bad_sinks' = bad
                    /\ good_sinks' = good
                    /\ unprocessed' =
                         initial_pipes(source_map(usable_sources(sources, good)))
    /\ UNCHANGED otherThanPlug

(***************************************************************************)
(* base.py:554-579: one iteration of the single-pipeline loop; the element *)
(* set.pop() returns is arbitrary.                                         *)
(***************************************************************************)
SinglePop ==
    /\ pc = "single"
    /\ \E next \in unprocessed :
         IF next \in pipes
         THEN /\ unprocessed' = unprocessed \ {next}
              /\ UNCHANGED <<pipes, pipes_to_run, best_cost, source>>
         ELSE /\ pipes' = pipes \cup {next}
              /\ source' = next.source
              /\ IF Covers(next.visited, sink_types(good_sinks))
                 THEN /\ IF Improves(best_cost, next.cost)
                         THEN /\ pipes_to_run' =
                                   <<[source |-> next.source,
                                      trans |-> next.trans]>>
                              /\ best_cost' = next.cost
                         ELSE UNCHANGED <<pipes_to_run, best_cost>>
                      /\ unprocessed' = unprocessed \ {next}
                 ELSE /\ UNCHANGED <<pipes_to_run, best_cost>>
                      /\ IF Dominated(best_cost, next.cost)
                         THEN unprocessed' = unprocessed \ {next}
                         ELSE unprocessed' =
                                (unprocessed \ {next}) \cup grow(next, transforms)
    /\ UNCHANGED <<sinks, transforms, sources, pc, bad_sinks, good_sinks, done,
                   result, first_outcome>>
    /\ UNCHANGED otherThanPlug

(***************************************************************************)
(* base.py:581-594: no single pipe drives everything; the combinations to  *)
(* try.  The loop of line 610 leaves `source` bound to the last key of     *)
(* source_to_pipes, whose order is the iteration order of the set pipes.   *)
(***************************************************************************)
EnterMulti ==
    /\ pc = "single"
    /\ unprocessed = {}
    /\ pipes_to_run = <<>>
    /\ pc' = "multi"
    /\ unprocessed' = initial_combinations(pipes)
    /\ done' = {}
    /\ \E last \in {p.source : p \in pipes} : source' = last
    /\ UNCHANGED <<sinks, transforms, sources, bad_sinks, good_sinks, pipes,
                   pipes_to_run, best_cost, result, first_outcome>>
    /\ UNCHANGED otherThanPlug

(***************************************************************************)
(* base.py:595-617: one iteration of the combination loop.                 *)
(***************************************************************************)
MultiPop ==
    /\ pc = "multi"
    /\ \E next \in unprocessed :
         IF next \in done
         THEN /\ unprocessed' = unprocessed \ {next}
              /\ UNCHANGED <<done, pipes_to_run, best_cost>>
         ELSE LET better == /\ Covers(next.visited, sink_types(good_sinks))
                            /\ Improves(best_cost, next.cost)
                  best == IF better THEN next.cost ELSE best_cost
              IN /\ done' = done \cup {next}
                 /\ pipes_to_run' = IF better THEN next.seq ELSE pipes_to_run
                 /\ best_cost' = best
                 /\ IF Dominated(best, next.cost)
                    THEN unprocessed' = unprocessed \ {next}
                    ELSE unprocessed' =
                           (unprocessed \ {next}) \cup combine(next, pipes)
    /\ UNCHANGED <<sinks, transforms, sources, pc, bad_sinks, good_sinks, pipes,
                   source, result, first_outcome>>
    /\ UNCHANGED otherThanPlug

(***************************************************************************)
(* base.py:619-644: the solution assertion, the sort, the transform trees  *)
(* and the final assertion.                                                *)
(***************************************************************************)
Build ==
    /\ pc \in {"single", "multi"}
    /\ unprocessed = {}
    /\ pc = "single" => pipes_to_run # <<>>
    /\ UNCHANGED <<sinks, transforms, sources, bad_sinks, unprocessed, pipes,
                   done, pipes_to_run, best_cost, source, first_outcome>>
    /\ IF pipes_to_run = <<>>
       THEN /\ pc' = "assert_solution"
            /\ UNCHANGED <<good_sinks, result>>
       ELSE \E order \in Orders(transforms) :
              LET built == build_result(pipes_to_run, 1, order,
                                        sort_by_priority(good_sinks), source)
              IN /\ good_sinks' = built.pool
                 /\ IF built.pool # <<>>
                    THEN /\ pc' = "assert_sinks_left"
                         /\ UNCHANGED result
                    ELSE /\ pc' = "returned"
                         /\ result' = built.result
    /\ UNCHANGED otherThanPlug

(***************************************************************************)
(* plug() is called once more with the same arguments.                     *)
(***************************************************************************)
Outcome == [pc |-> pc, bad_sinks |-> bad_sinks, result |-> result]

Replug ==
    /\ pc \in Final
    /\ first_outcome = NoOutcome
    /\ first_outcome' = Outcome
    /\ pc' = "call"
    /\ bad_sinks' = <<>>
    /\ good_sinks' = <<>>
    /\ unprocessed' = {}
    /\ pipes' = {}
    /\ done' = {}
    /\ pipes_to_run' = <<>>
    /\ best_cost' = NoCost
    /\ source' = NoSource
    /\ result' = <<>>
    /\ UNCHANGED <<sinks, transforms, sources>>
    /\ UNCHANGED otherThanPlug

\* every check has the default priority; costs vary
Init == PlugInit({default_priority}, Costs)

\* priorities vary; every source and transform costs nothing
InitPriority == PlugInit(Priorities, {0})

Next ==
    \/ PlugCall
    \/ SinglePop
    \/ EnterMulti
    \/ MultiPop
    \/ Build

Spec == Init /\ [][Next]_vars

\* plug() may be called a second time with the same arguments
NextTwice ==
    \/ Next
    \/ Replug

SpecTwice == Init /\ [][NextTwice]_vars

SpecPriority == InitPriority /\ [][Next]_vars

(***************************************************************************)
(* Reading a returned pipeline tree.                                       *)
(***************************************************************************)
\* the sinks of a tree, in the order CheckRunner.feed reaches them
RECURSIVE tree_sinks(_)
RECURSIVE children_sinks(_, _)
children_sinks(checks, i) ==
    IF i > Len(checks) THEN <<>>
    ELSE (IF checks[i].kind = "sink" THEN <<checks[i].sink>>
          ELSE tree_sinks(checks[i].child))
         \o children_sinks(checks, i + 1)

tree_sinks(node) == children_sinks(node.checks, 1)

\* the transforms placed in a tree
RECURSIVE tree_transforms(_)
RECURSIVE children_transforms(_, _)
children_transforms(checks, i) ==
    IF i > Len(checks) THEN {}
    ELSE (IF checks[i].kind = "sink" THEN {}
          ELSE {checks[i].trans} \cup tree_transforms(checks[i].child))
         \cup children_transforms(checks, i + 1)

tree_transforms(node) == children_transforms(node.checks, 1)

RECURSIVE all_sinks(_, _)
all_sinks(res, i) ==
    IF i > Len(res) THEN <<>>
    ELSE tree_sinks(res[i].runner) \o all_sinks(res, i + 1)

Count(s, x) == Cardinality({i \in 1..Len(s) : s[i] = x})

\* the cost of a plan: a sequence or set of (source, transforms) pairs
RECURSIVE plan_cost(_, _)
plan_cost(plan, i) ==
    IF i > Len(plan) THEN 0
    ELSE plan[i].source.cost + SumCost(plan[i].trans) + plan_cost(plan, i + 1)

\* the sinks plug() keeps as reachable (base.py:508-515)
GoodSinks == split_sinks(sinks, sources, transforms, FALSE)

(***************************************************************************)
(* C1 (stated as claimed): plug returns, and every input sink is either in *)
(* unreachable or a child of exactly one node of exactly one returned tree,*)
(* never both and never neither; the 'sinks left' assertion never fails.   *)
(***************************************************************************)
C1_Coverage ==
    /\ pc # "assert_sinks_left"
    /\ pc = "returned" =>
         \A i \in 1..Len(sinks) :
            Count(bad_sinks, sinks[i]) + Count(all_sinks(result, 1), sinks[i])
              = 1

(***************************************************************************)
(* C2 (stated as claimed): in every returned pipeline, every transform and *)
(* every sink placed in the tree has a minimum scope <= the scope of that  *)
(* pipeline's own source.                                                  *)
(***************************************************************************)
C2_ScopeBound ==
    pc = "returned" =>
      \A i \in 1..Len(result) :
         /\ \A t \in tree_transforms(result[i].runner) :
               t.scope <= result[i].source.scope
         /\ \A k \in SeqToSet(tree_sinks(result[i].runner)) :
               k.scope <= result[i].source.scope

(***************************************************************************)
(* C5 (stated as claimed): within one returned pipeline the sinks are      *)
(* reached in ascending priority, sinks of equal priority in the order in  *)
(* which they were supplied to plug.                                       *)
(***************************************************************************)
InPriorityOrder(s) ==
    \A i, j \in 1..Len(s) :
       i < j => \/ s[i].priority < s[j].priority
                \/ s[i].priority = s[j].priority /\ s[i].id < s[j].id

C5_PriorityOrder ==
    pc = "returned" =>
      \A i \in 1..Len(result) : InPriorityOrder(tree_sinks(result[i].runner))

(***************************************************************************)
(* C6 (stated as claimed): for fixed arguments plug returns the same plan  *)
(* whatever order elements are popped from its work sets.                  *)
(***************************************************************************)
C6_Deterministic ==
    (pc \in Final /\ first_outcome # NoOutcome) => Outcome = first_outcome

(***************************************************************************)
(* The plans plug() could have chosen: sets of (source, transforms) pairs  *)
(* over the same sources and transforms.                                   *)
(***************************************************************************)
pipe_reach(p) == Closure({p.source.feed_type}, p.source, p.trans)

AltPipelines ==
    {p \in [source : sources, trans : SUBSET transforms] :
        \A t \in p.trans : t.scope <= p.source.scope /\ t.source \in pipe_reach(p)}

\* a plan uses a source at most once (base.py:585)
AltPlans ==
    {P \in (SUBSET AltPipelines) \ {{}} :
        \A p, q \in P : p.source = q.source => p = q}

pipe_cost(p) == p.source.cost + SumCost(p.trans)

RECURSIVE set_plan_cost(_)
set_plan_cost(P) ==
    IF P = {} THEN 0
    ELSE LET p == CHOOSE q \in P : TRUE
         IN pipe_cost(p) + set_plan_cost(P \ {p})

\* every reachable sink is driven by a pipeline of P: its feed type is
\* reached and the pipeline's source has at least the sink's scope
PlanCovers(P, good) ==
    \A i \in 1..Len(good) :
       \E p \in P : /\ good[i].feed_type \in pipe_reach(p)
                    /\ good[i].scope <= p.source.scope

\* the single-source pipelines over srcs that reach every sink feed type
SingleCover(srcs) ==
    {p \in AltPipelines :
        p.source \in srcs /\ Covers(pipe_reach(p), sink_types(GoodSinks))}

\* plug() has selected a plan (base.py:620 passed)
PlanSelected == pc \in {"returned", "assert_sinks_left"} /\ pipes_to_run # <<>>

C4_Original ==
    (pc = "returned" /\ result # <<>>) =>
      /\ SingleCover(sources) # {} =>
           /\ Len(result) = 1
           /\ \A p \in SingleCover(sources) :
                 plan_cost(pipes_to_run, 1) <= pipe_cost(p)
      /\ Len(result) > 1 => SingleCover(sources) = {}

(***************************************************************************)
(* C4 (amended): whenever some source whose scope is >= the least scope of *)
(* a reachable sink reaches the feed type of every reachable sink, the     *)
(* plan plug selects is exactly one pipeline, of least cost among the      *)
(* single-source pipelines of such sources covering those feed types; it   *)
(* selects more than one pipeline only when no such source covers them;    *)
(* and what plug returns is one tree per selected pipeline, on its source. *)
(***************************************************************************)
UsableSources == usable_sources(sources, GoodSinks)

C4_SinglePreferred ==
    PlanSelected =>
      /\ SingleCover(UsableSources) # {} =>
           /\ Len(pipes_to_run) = 1
           /\ \A p \in SingleCover(UsableSources) :
                 plan_cost(pipes_to_run, 1) <= pipe_cost(p)
      /\ Len(pipes_to_run) > 1 => SingleCover(UsableSources) = {}
      /\ pc = "returned" =>
           /\ Len(result) = Len(pipes_to_run)
           /\ \A i \in 1..Len(result) :
                 result[i].source = pipes_to_run[i].source

\* C4 witness: one pipeline was returned where single-source pipelines of
\* different cost cover the sink feed types
C4_Witness ==
    /\ pc = "returned"
    /\ Len(result) = 1
    /\ sink_types(GoodSinks) = Feeds
    /\ \E p, q \in SingleCover(UsableSources) : pipe_cost(p) < pipe_cost(q)

\* a split into two pipelines was selected
C4_WitnessMulti ==
    /\ pc = "returned"
    /\ Len(result) = 2


-----------------------------------------------------------------------------
\* Running a pipeline tree: CheckRunner and Transform.

MaxItems == 2
MaxFaults == 2
ChildCounts == 1..2
MetaExcs == {"e1", "e2"}
Outcomes == {"ok", "crash"} \cup MetaExcs

sink_leaf == [kind |-> "sink"]
LeafRunners == {[checks |-> [i \in 1..n |-> sink_leaf]] : n \in ChildCounts}
TransformNodes == {[kind |-> "transform", child |-> r] : r \in LeafRunners}
Trees == {[checks |-> cs] :
             cs \in UNION {[1..n -> {sink_leaf} \cup TransformNodes] :
                              n \in ChildCounts}}

RECURSIVE TreeOrder(_, _)
RECURSIVE ChildrenOrder(_, _, _)
\* the sinks and transforms below a runner, each named by its path of child
\* positions, parents before their children and children as declared
TreeOrder(node, path) == ChildrenOrder(node, path, 1)
ChildrenOrder(node, path, i) ==
    IF i > Len(node.checks) THEN <<>>
    ELSE LET c == node.checks[i]
             cp == Append(path, i)
             below == IF c.kind = "sink" THEN <<>>
                      ELSE TreeOrder(c.child, cp)
         IN <<cp>> \o below \o ChildrenOrder(node, path, i + 1)

RECURSIVE ElementAt(_, _)
ElementAt(node, p) ==
    IF Len(p) = 1 THEN node.checks[p[1]]
    ELSE ElementAt(node.checks[p[1]].child, Tail(p))

LeafPaths(node) ==
    {p \in SeqToSet(TreeOrder(node, <<>>)) : ElementAt(node, p).kind = "sink"}

\* what each check does when the next call reaches it
Oracles(node) ==
    LET leaves == LeafPaths(node)
    IN {o \in [leaves -> Outcomes] :
           Cardinality({p \in leaves : o[p] # "ok"}) <= MaxFaults}

\* the except clauses of start and feed; finish has none
CatchesMetadata_start_only(op) == op = "start"
CatchesMetadata(op) == op \in {"start", "feed"}

\* for check in self.checks
ChildOrder_finish_reversed(op, node) ==
    [i \in 1..Len(node.checks) |->
        IF op = "finish" THEN Len(node.checks) + 1 - i ELSE i]
ChildOrder(op, node) == [i \in 1..Len(node.checks) |-> i]

\* a check is called: it returns or raises what the oracle says
check_call(cp, oracle, st) ==
    IF oracle[cp] = "ok" THEN st
    ELSE [st EXCEPT !.raised = oracle[cp],
                    !.faults = @ \cup {<<cp, oracle[cp]>>}]

\* the handler of MetadataException, in the runner at path
on_metadata(path, e, st) ==
    IF <<path, e>> \notin st.errors
    THEN [st EXCEPT !.raised = "none",
                    !.errors = @ \cup {<<path, e>>},
                    !.reports = Append(@, e)]
    ELSE [st EXCEPT !.raised = "none"]

RECURSIVE CheckRunner_call(_, _, _, _, _)
RECURSIVE runner_loop(_, _, _, _, _, _)
\* a concrete transform's feed converts the item and feeds it to the child
Transform_feed(c, cp, oracle, st) ==
    CheckRunner_call("feed", c.child, cp, oracle, st)

\* Transform.start and Transform.finish hand the call to the child runner
Transform_call(op, c, cp, oracle, st) ==
    IF op = "feed" THEN Transform_feed(c, cp, oracle, st)
    ELSE CheckRunner_call(op, c.child, cp, oracle, st)

runner_loop(op, node, path, idxs, oracle, st) ==
    IF idxs = <<>> \/ st.raised # "none" THEN st
    ELSE LET c == node.checks[Head(idxs)]
             cp == Append(path, Head(idxs))
             reached == [st EXCEPT !.log = Append(@, cp)]
             called == IF c.kind = "sink"
                       THEN check_call(cp, oracle, reached)
                       ELSE Transform_call(op, c, cp, oracle, reached)
             handled == IF CatchesMetadata(op) /\ called.raised \in MetaExcs
                        THEN on_metadata(path, called.raised, called)
                        ELSE called
         IN runner_loop(op, node, path, Tail(idxs), oracle, handled)

\* CheckRunner.start, CheckRunner.feed and CheckRunner.finish
CheckRunner_call(op, node, path, oracle, st) ==
    runner_loop(op, node, path, ChildOrder(op, node), oracle, st)

CheckRunner_start(oracle) ==
    CheckRunner_call("start", tree, <<>>, oracle,
        [reports |-> reports, errors |-> metadata_errors, log |-> <<>>,
         raised |-> "none", faults |-> {}])
CheckRunner_feed(oracle) ==
    CheckRunner_call("feed", tree, <<>>, oracle,
        [reports |-> reports, errors |-> metadata_errors, log |-> <<>>,
         raised |-> "none", faults |-> {}])
CheckRunner_finish(oracle) ==
    CheckRunner_call("finish", tree, <<>>, oracle,
        [reports |-> reports, errors |-> metadata_errors, log |-> <<>>,
         raised |-> "none", faults |-> {}])

MetaRaised(r) == {f[2] : f \in {g \in r.faults : g[2] \in MetaExcs}}


\* no plan is being computed
PlugIdle ==
    /\ sinks = <<>>
    /\ transforms = {}
    /\ sources = {}
    /\ pc = "idle"
    /\ first_outcome = NoOutcome
    /\ PlugLocals

\* a pipeline tree has been built and nothing has been called on it
RunnerInit ==
    /\ PlugIdle
    /\ CheckIdle
    /\ ReporterIdle
    /\ FilterIdle
    /\ RestIdle
    /\ tree \in Trees
    /\ debug \in BOOLEAN
    /\ stage = "new"
    /\ calls = <<>>
    /\ reports = <<>>
    /\ metadata_errors = {}
    /\ raised_meta = {}
    /\ start_log = <<>>
    /\ feed_log = <<>>
    /\ finish_log = <<>>
    /\ faults = {}

\* runner.start(r)
RunnerStart ==
    /\ stage = "new"
    /\ \E oracle \in Oracles(tree) :
          LET r == CheckRunner_start(oracle)
          IN /\ reports' = r.reports
             /\ metadata_errors' = r.errors
             /\ raised_meta' = raised_meta \cup MetaRaised(r)
             /\ start_log' = r.log
             /\ faults' = r.faults
             /\ calls' = Append(calls, [op |-> "start", raised |-> r.raised])
             /\ stage' = IF r.raised = "none" THEN "started" ELSE "failed"
    /\ UNCHANGED <<tree, debug, feed_log, finish_log>>
    /\ UNCHANGED otherThanRunner

\* runner.feed(data, r)
RunnerFeed ==
    /\ stage = "started"
    /\ Len(calls) <= MaxItems
    /\ \E oracle \in Oracles(tree) :
          LET r == CheckRunner_feed(oracle)
          IN /\ reports' = r.reports
             /\ metadata_errors' = r.errors
             /\ raised_meta' = raised_meta \cup MetaRaised(r)
             /\ feed_log' = r.log
             /\ faults' = r.faults
             /\ calls' = Append(calls, [op |-> "feed", raised |-> r.raised])
             /\ stage' = IF r.raised = "none" THEN "started" ELSE "failed"
    /\ UNCHANGED <<tree, debug, start_log, finish_log>>
    /\ UNCHANGED otherThanRunner

\* runner.finish(r)
RunnerFinish ==
    /\ stage = "started"
    /\ \E oracle \in Oracles(tree) :
          LET r == CheckRunner_finish(oracle)
          IN /\ reports' = r.reports
             /\ metadata_errors' = r.errors
             /\ finish_log' = r.log
             /\ faults' = r.faults
             /\ calls' = Append(calls, [op |-> "finish", raised |-> r.raised])
             /\ stage' = IF r.raised = "none" THEN "finished" ELSE "failed"
    /\ UNCHANGED <<tree, debug, raised_meta, start_log, feed_log>>
    /\ UNCHANGED otherThanRunner

NextRunner ==
    \/ RunnerStart
    \/ RunnerFeed
    \/ RunnerFinish

SpecRunner == RunnerInit /\ [][NextRunner]_vars

LastCall == calls[Len(calls)]
TreePaths == TreeOrder(tree, <<>>)


Parent(p) == SubSeq(p, 1, Len(p) - 1)
IsPrefix(s, t) == Len(s) <= Len(t) /\ s = SubSeq(t, 1, Len(s))
Reverse(s) == [i \in 1..Len(s) |-> s[Len(s) + 1 - i]]
LastLog == IF LastCall.op = "start" THEN start_log
           ELSE IF LastCall.op = "feed" THEN feed_log
           ELSE finish_log

\* C7: over a run of a pipeline tree, every (pkg, error) pair raised as a
\* metadata exception by start or feed has exactly one MetadataError result
\* at the reporter, and no other pair has any, whichever children of
\* whichever CheckRunner nodes raised it.
C7_OneReportPerPair ==
    \A e \in MetaExcs :
        Count(reports, e) = IF e \in raised_meta THEN 1 ELSE 0

\* C8: after a start or a feed of a CheckRunner, no metadata exception has
\* left the call; every pair a child raised is recorded by the runner that
\* called the child and is at the reporter once per recording runner; the
\* children were reached in declaration order, and all of them unless an
\* exception that is not a metadata error ended the call.
C8_MetadataHandled ==
    (calls # <<>> /\ LastCall.op \in {"start", "feed"}) =>
        /\ LastCall.raised \notin MetaExcs
        /\ \A f \in faults :
              f[2] \in MetaExcs =>
                  /\ <<Parent(f[1]), f[2]>> \in metadata_errors
                  /\ Count(reports, f[2]) >= 1
        /\ \A e \in MetaExcs :
              Count(reports, e) =
                  Cardinality({m \in metadata_errors : m[2] = e})
        /\ IsPrefix(LastLog, TreePaths)
        /\ LastCall.raised = "none" => LastLog = TreePaths
        /\ LastCall.raised # "none" =>
              <<LastLog[Len(LastLog)], "crash">> \in faults

\* a feed in which two children of one runner raised the same pair, the first
\* of them not the last child, and the pair is at the reporter once
C8_Witness ==
    /\ calls # <<>>
    /\ LastCall.op = "feed"
    /\ LastCall.raised = "none"
    /\ \E f \in faults : \E g \in faults :
          /\ f # g
          /\ f[2] \in MetaExcs
          /\ g[2] = f[2]
          /\ Parent(f[1]) = Parent(g[1])
          /\ Count(reports, f[2]) = 1
    /\ feed_log = TreePaths

\* C9: when a child's feed raises an exception that is not a metadata error,
\* the exception leaves the feed only in debug mode; otherwise the feed
\* returns and has fed the other children.
C9_SkipOnError ==
    (/\ calls # <<>>
     /\ LastCall.op = "feed"
     /\ \E f \in faults : f[2] = "crash") =>
        IF debug THEN LastCall.raised = "crash"
        ELSE LastCall.raised = "none" /\ feed_log = TreePaths

StartFeedsFinish ==
    /\ Len(calls) >= 2
    /\ calls[1].op = "start"
    /\ calls[Len(calls)].op = "finish"
    /\ \A i \in 2..(Len(calls) - 1) : calls[i].op = "feed"

\* C10 as stated: after a run, start has reached every sink and transform in
\* tree order before any feed, and finish has reached them in the reverse of
\* that order after the last feed.
C10_Original ==
    stage = "finished" =>
        /\ StartFeedsFinish
        /\ start_log = TreePaths
        /\ finish_log = Reverse(TreePaths)

\* C10: after a run in which start and finish returned, start has reached
\* every sink and transform in tree order before any feed, and finish has
\* reached them in that same order after the last feed.
C10_TreeOrder ==
    stage = "finished" =>
        /\ StartFeedsFinish
        /\ start_log = TreePaths
        /\ finish_log = TreePaths

\* a finished run of a tree with a transform over two sinks, with items fed
C10_Witness ==
    /\ stage = "finished"
    /\ Len(calls) >= 3
    /\ \E p \in SeqToSet(TreePaths) : Len(p) = 2 /\ p[2] = 2
    /\ Len(tree.checks) = 2
    /\ finish_log = start_log

\* C11: a finish of a CheckRunner has reached every sink and transform of the
\* tree, also when a preceding child's finish failed, and a failure of a
\* child that is not a metadata error has reached the caller.
C11_FinishAll ==
    (calls # <<>> /\ LastCall.op = "finish") =>
        /\ finish_log = TreePaths
        /\ \A f \in faults : f[2] = "crash" => LastCall.raised = "crash"

-----------------------------------------------------------------------------
\* Checks run by a CheckRunner: RedundantVersionReport and UnstableOnlyReport.

VersionCounts == 1..3
Slots == {"0", "1"}

\* a keyword is an arch behind an optional "~" or "-"
kw(prefix, arch) == [prefix |-> prefix, arch |-> arch]
startswith(x, prefix) == x.prefix = prefix

CleanupKeywords ==
    {{}, {kw("-", "*")}, {kw("", "amd64")}, {kw("~", "amd64")},
     {kw("-", "*"), kw("", "amd64")}, {kw("", "amd64"), kw("", "x86")},
     {kw("~", "amd64"), kw("~", "x86")}}

\* the versions of one package, lowest first; a broken version raises a
\* MetadataException when its keywords are read
Packages(slots, lives, keywordsets) ==
    {p \in [slot : slots, live : lives, broken : BOOLEAN,
            keywords : keywordsets] : ~(p.live /\ p.broken)}
\* version i of a package set is its i-th member
versioned(ps) ==
    [i \in 1..Len(ps) |->
        [fullver |-> i, slot |-> ps[i].slot, live |-> ps[i].live,
         broken |-> ps[i].broken, keywords |-> ps[i].keywords]]

RedundantVersion(pkg, higher_pkgs) ==
    [class |-> "RedundantVersion", version |-> pkg.fullver, slot |-> pkg.slot,
     later_versions |-> [j \in 1..Len(higher_pkgs) |-> higher_pkgs[j].fullver]]

\* the keywords of pkg that do not start with "-"
curr_set_of(pkg) == {x \in pkg.keywords : ~startswith(x, "-")}
\* what goes on the stack for pkg: "~arch" added for every stable arch
stacked_keys(curr_set) ==
    curr_set \cup {kw("~", x.arch) : x \in {y \in curr_set : ~startswith(y, "~")}}
\* ver.slot == pkg.slot and not curr_set.difference(keys)
Overshadows_any_slot(entry, pkg, curr_set) == curr_set \ entry.keys = {}
Overshadows(entry, pkg, curr_set) ==
    entry.pkg.slot = pkg.slot /\ curr_set \ entry.keys = {}

RECURSIVE cleanup_scan(_, _, _, _)
\* for pkg in reversed(pkgset)
cleanup_scan(ps, i, stack, bad) ==
    IF i = 0 THEN [raised |-> "none", bad |-> bad]
    ELSE LET pkg == ps[i]
         IN IF pkg.live THEN cleanup_scan(ps, i - 1, stack, bad)
            ELSE IF pkg.broken THEN [raised |-> "e1", bad |-> bad]
            ELSE IF curr_set_of(pkg) = {}
                 THEN cleanup_scan(ps, i - 1, stack, bad)
            ELSE LET curr_set == curr_set_of(pkg)
                     hits == SelectSeq(stack,
                                LAMBDA en : Overshadows(en, pkg, curr_set))
                     matches == [j \in 1..Len(hits) |-> hits[j].pkg]
                     pushed == Append(stack, [pkg |-> pkg,
                                              keys |-> stacked_keys(curr_set)])
                 IN cleanup_scan(ps, i - 1, pushed,
                        IF matches # <<>>
                        THEN Append(bad, [pkg |-> pkg, matches |-> matches])
                        ELSE bad)

\* RedundantVersionReport.feed: what it raises and what it reports
RedundantVersionReport_feed(ps) ==
    IF Len(ps) = 1 THEN [raised |-> "none", results |-> <<>>]
    ELSE LET scan == cleanup_scan(ps, Len(ps), <<>>, <<>>)
             n == Len(scan.bad)
         IN IF scan.raised # "none"
            THEN [raised |-> scan.raised, results |-> <<>>]
            ELSE [raised |-> "none",
                  results |-> [k \in 1..n |->
                      RedundantVersion(scan.bad[n + 1 - k].pkg,
                                       scan.bad[n + 1 - k].matches)]]

UnstableKeywords ==
    {{}, {kw("~", "amd64")}, {kw("~", "x86")},
     {kw("~", "amd64"), kw("~", "x86")}, {kw("", "amd64")},
     {kw("", "amd64"), kw("", "x86")}, {kw("", "amd64"), kw("~", "x86")},
     {kw("~", "amd64"), kw("", "x86")}}

\* what options.stable_arches may hold: arch names, some written with a "~"
ConfiguredArches == {kw("", "amd64"), kw("~", "amd64"), kw("", "x86")}
ArchOptions == SUBSET ConfiguredArches \ {{}}

\* x.strip().lstrip("~")
lstrip_tilde(x) == x.arch
\* UnstableOnlyReport.__init__: the keys of arch_restricts
arch_restricts(configured) == {lstrip_tilde(x) : x \in configured}

UnstableOnly(pkgs, arches) ==
    [class |-> "UnstableOnly", arches |-> arches,
     versions |-> [j \in 1..Len(pkgs) |-> pkgs[j].fullver]]

RECURSIVE stable_walk(_, _, _)
stable_walk_highest_only(ps, i, arch) ==
    IF ps[Len(ps)].broken THEN "e1"
    ELSE IF kw("", arch) \in ps[Len(ps)].keywords THEN "stable"
    ELSE "none"
\* for x in pkgset: if v[0].match(x): stable = x; break
stable_walk(ps, i, arch) ==
    IF i > Len(ps) THEN "none"
    ELSE IF ps[i].broken THEN "e1"
    ELSE IF kw("", arch) \in ps[i].keywords THEN "stable"
    ELSE stable_walk(ps, i + 1, arch)

\* unstable_arches[unstable].append(k)
add_arch(groups, unstable, k) ==
    IF \E g \in 1..Len(groups) : groups[g].pkgs = unstable
    THEN [g \in 1..Len(groups) |->
             IF groups[g].pkgs = unstable
             THEN [groups[g] EXCEPT !.arches = Append(@, k)]
             ELSE groups[g]]
    ELSE Append(groups, [pkgs |-> unstable, arches |-> <<k>>])

RECURSIVE unstable_scan(_, _, _, _)
\* for k, v in self.arch_restricts.items()
unstable_scan(ps, order, i, groups) ==
    IF i > Len(order) THEN [raised |-> "none", groups |-> groups]
    ELSE LET k == order[i]
             found == stable_walk(ps, 1, k)
             unstable == SelectSeq(ps, LAMBDA x : kw("~", k) \in x.keywords)
         IN IF found = "e1" THEN [raised |-> "e1", groups |-> groups]
            ELSE IF found = "stable"
                 THEN unstable_scan(ps, order, i + 1, groups)
            ELSE IF \E j \in 1..Len(ps) : ps[j].broken
                 THEN [raised |-> "e1", groups |-> groups]
            ELSE IF unstable # <<>>
                 THEN unstable_scan(ps, order, i + 1,
                                    add_arch(groups, unstable, k))
            ELSE unstable_scan(ps, order, i + 1, groups)

\* UnstableOnlyReport.feed, the arches coming in the order the dict has them
UnstableOnlyReport_feed(ps, order) ==
    LET scan == unstable_scan(ps, order, 1, <<>>)
    IN IF scan.raised # "none"
       THEN [raised |-> scan.raised, results |-> <<>>]
       ELSE [raised |-> "none",
             results |-> [g \in 1..Len(scan.groups) |->
                 UnstableOnly(scan.groups[g].pkgs, scan.groups[g].arches)]]

known_results(kls) ==
    IF kls = "RedundantVersionReport" THEN {"RedundantVersion"}
    ELSE IF kls = "UnstableOnlyReport" THEN {"UnstableOnly"}
    ELSE {}

\* check.feed(pkgset, reporter), by the class of the check
check_feed(kls, ps, order) ==
    IF kls = "RedundantVersionReport" THEN RedundantVersionReport_feed(ps)
    ELSE UnstableOnlyReport_feed(ps, order)

\* runner = base.CheckRunner([check])
CheckRunnerOf(kls, configured, packages) ==
    /\ PlugIdle
    /\ ReporterIdle
    /\ FilterIdle
    /\ RestIdle
    /\ tree = [checks |-> <<sink_leaf>>]
    /\ debug = FALSE
    /\ stage = "new"
    /\ calls = <<>>
    /\ reports = <<>>
    /\ metadata_errors = {}
    /\ raised_meta = {}
    /\ start_log = <<>>
    /\ feed_log = <<>>
    /\ finish_log = <<>>
    /\ faults = {}
    /\ check = kls
    /\ stable_arches \in configured
    /\ \E n \in VersionCounts :
          \E ps \in [1..n -> packages] : pkgset = versioned(ps)
    /\ emitted = <<>>
    /\ self_arch_restricts \in Orders(arch_restricts(stable_arches))

CleanupInit ==
    CheckRunnerOf("RedundantVersionReport", {{}},
                  Packages(Slots, BOOLEAN, CleanupKeywords))
UnstableInit ==
    CheckRunnerOf("UnstableOnlyReport", ArchOptions,
                  Packages({"0"}, {FALSE}, UnstableKeywords))

AllOk == [p \in LeafPaths(tree) |-> "ok"]

\* runner.start(r): Template.start does nothing
CheckStart ==
    /\ stage = "new"
    /\ LET r == CheckRunner_start(AllOk)
       IN /\ reports' = r.reports
          /\ metadata_errors' = r.errors
          /\ start_log' = r.log
          /\ faults' = r.faults
          /\ calls' = Append(calls, [op |-> "start", raised |-> r.raised])
          /\ stage' = IF r.raised = "none" THEN "started" ELSE "failed"
    /\ UNCHANGED <<tree, debug, raised_meta, feed_log, finish_log>>
    /\ UNCHANGED <<check, stable_arches, pkgset, emitted, self_arch_restricts>>
    /\ UNCHANGED otherThanCheck

\* runner.feed(data, r)
CheckFeed ==
    /\ stage = "started"
    /\ Len(calls) = 1
    /\ LET answer == check_feed(check, pkgset, self_arch_restricts)
           oracle == [p \in LeafPaths(tree) |->
                         IF answer.raised = "none" THEN "ok" ELSE answer.raised]
           r == CheckRunner_feed(oracle)
       IN /\ reports' = r.reports
          /\ metadata_errors' = r.errors
          /\ raised_meta' = raised_meta \cup MetaRaised(r)
          /\ feed_log' = r.log
          /\ faults' = r.faults
          /\ calls' = Append(calls, [op |-> "feed", raised |-> r.raised])
          /\ stage' = IF r.raised = "none" THEN "started" ELSE "failed"
          /\ emitted' = emitted \o answer.results
    /\ UNCHANGED <<tree, debug, start_log, finish_log>>
    /\ UNCHANGED <<check, stable_arches, pkgset, self_arch_restricts>>
    /\ UNCHANGED otherThanCheck

\* UnstableOnlyReport.finish: self.arch_restricts.clear(); Template.finish
\* does nothing
check_finish(kls, restricts) ==
    IF kls = "UnstableOnlyReport" THEN <<>> ELSE restricts

\* runner.finish(r): neither check reports anything at finish
CheckFinish ==
    /\ stage = "started"
    /\ Len(calls) = 2
    /\ LET r == CheckRunner_finish(AllOk)
       IN /\ reports' = r.reports
          /\ metadata_errors' = r.errors
          /\ finish_log' = r.log
          /\ faults' = r.faults
          /\ calls' = Append(calls, [op |-> "finish", raised |-> r.raised])
          /\ stage' = IF r.raised = "none" THEN "finished" ELSE "failed"
    /\ self_arch_restricts' = check_finish(check, self_arch_restricts)
    /\ UNCHANGED <<tree, debug, raised_meta, start_log, feed_log>>
    /\ UNCHANGED <<check, stable_arches, pkgset, emitted>>
    /\ UNCHANGED otherThanCheck

NextCheck ==
    \/ CheckStart
    \/ CheckFeed
    \/ CheckFinish

SpecCleanup == CleanupInit /\ [][NextCheck]_vars
SpecUnstable == UnstableInit /\ [][NextCheck]_vars

\* the classes of the results the reporter was given: the check's own and the
\* MetadataError results of the runner
delivered_classes ==
    {emitted[i].class : i \in 1..Len(emitted)}
        \cup {"MetadataError" : i \in 1..Len(reports)}

\* C12: every result delivered to the reporter while a CheckRunner wrapping a
\* check runs start, feed and finish has a class in the check's known_results.
C12_KnownResults ==
    check # "none" => delivered_classes \subseteq known_results(check)

Fed == check # "none" /\ Len(calls) >= 2
NoBroken == \A i \in 1..Len(pkgset) : ~pkgset[i].broken

\* the versions above version i that overshadow it: not live, of the same
\* slot, their keywords (without the "-" entries, with "~X" for every stable
\* X) holding every keyword of version i that does not start with "-"
Overshadowing(i) ==
    {j \in (i + 1)..Len(pkgset) :
        /\ ~pkgset[j].live
        /\ pkgset[j].slot = pkgset[i].slot
        /\ curr_set_of(pkgset[i])
              \subseteq stacked_keys(curr_set_of(pkgset[j]))}
Redundant == {i \in 1..Len(pkgset) : ~pkgset[i].live /\ Overshadowing(i) # {}}
RedundantKeyworded == {i \in Redundant : curr_set_of(pkgset[i]) # {}}

\* the results are one per version of the set flagged, in ascending version
\* order, each listing exactly the overshadowing versions
EmittedFor(flagged) ==
    /\ Len(emitted) = Cardinality(flagged)
    /\ \A k \in 1..Len(emitted) :
          /\ emitted[k].class = "RedundantVersion"
          /\ emitted[k].version \in flagged
          /\ emitted[k].slot = pkgset[emitted[k].version].slot
          /\ SeqToSet(emitted[k].later_versions) =
                Overshadowing(emitted[k].version)
          /\ Len(emitted[k].later_versions) =
                Cardinality(Overshadowing(emitted[k].version))
    /\ \A k \in 1..(Len(emitted) - 1) :
          emitted[k].version < emitted[k + 1].version

\* C13 as stated: fed more than one version, RedundantVersionReport emits
\* exactly one result for each non-live version overshadowed by a higher
\* non-live version of its slot, in ascending version order.
C13_Original ==
    (Fed /\ check = "RedundantVersionReport" /\ NoBroken /\ Len(pkgset) > 1)
        => EmittedFor(Redundant)

\* C13: fed more than one version, RedundantVersionReport emits exactly one
\* result for each non-live version that has a keyword not starting with
\* "-" and is overshadowed by a higher non-live version of its slot; the
\* result lists exactly the overshadowing versions, results come in ascending
\* version order, and nothing else is emitted.
C13_Redundant ==
    (Fed /\ check = "RedundantVersionReport" /\ NoBroken /\ Len(pkgset) > 1)
        => EmittedFor(RedundantKeyworded)

\* three versions fed, two of them flagged, the lowest overshadowed by both
\* higher ones and carrying a "-" keyword, with a version of another slot or
\* a live one left out
C13_Witness ==
    /\ Fed
    /\ check = "RedundantVersionReport"
    /\ Len(emitted) = 2
    /\ Len(emitted[1].later_versions) = 2
    /\ \E x \in pkgset[1].keywords : startswith(x, "-")
    /\ pkgset[2].keywords # pkgset[3].keywords

\* two versions fed, the higher one live or of another slot: nothing flagged
C13_WitnessNone ==
    /\ Fed
    /\ check = "RedundantVersionReport"
    /\ Len(pkgset) = 2
    /\ pkgset[1].keywords = {kw("", "amd64")}
    /\ pkgset[2].keywords = {kw("", "amd64")}
    /\ pkgset[2].live
    /\ emitted = <<>>

\* the arches the check was configured with
ArchNames == {x.arch : x \in stable_arches}
\* the versions keyworded ~a, lowest first
UnstableVersions(a) ==
    LET ps == SelectSeq(pkgset, LAMBDA x : kw("~", a) \in x.keywords)
    IN [j \in 1..Len(ps) |-> ps[j].fullver]
\* the arches with no stably keyworded version and some unstable one
StrictlyUnstable ==
    {a \in ArchNames :
        /\ \A i \in 1..Len(pkgset) : kw("", a) \notin pkgset[i].keywords
        /\ UnstableVersions(a) # <<>>}

\* C14: UnstableOnlyReport emits exactly one UnstableOnly result per distinct
\* non-empty tuple of versions that is, for some configured arch with no
\* stably keyworded version, the tuple of all versions keyworded ~arch; the
\* result lists those versions and exactly the arches sharing the tuple.
C14_UnstableOnly ==
    (Fed /\ check = "UnstableOnlyReport" /\ NoBroken) =>
        /\ Len(emitted) =
              Cardinality({UnstableVersions(a) : a \in StrictlyUnstable})
        /\ \A k \in 1..Len(emitted) :
              /\ emitted[k].class = "UnstableOnly"
              /\ emitted[k].versions # <<>>
              /\ SeqToSet(emitted[k].arches) =
                    {a \in StrictlyUnstable :
                        UnstableVersions(a) = emitted[k].versions}
              /\ SeqToSet(emitted[k].arches) # {}
              /\ Len(emitted[k].arches) =
                    Cardinality(SeqToSet(emitted[k].arches))
        /\ \A k, l \in 1..Len(emitted) :
              k # l => emitted[k].versions # emitted[l].versions

\* versions 1 and 2 both '~amd64 ~x86': one result, for amd64 and x86
C14_Witness ==
    /\ Fed
    /\ check = "UnstableOnlyReport"
    /\ Len(pkgset) = 2
    /\ \A i \in 1..2 : pkgset[i].keywords = {kw("~", "amd64"), kw("~", "x86")}
    /\ Len(emitted) = 1
    /\ emitted[1].versions = <<1, 2>>
    /\ SeqToSet(emitted[1].arches) = {"amd64", "x86"}

\* with version 3 'amd64 x86' added: no result
C14_WitnessStable ==
    /\ Fed
    /\ check = "UnstableOnlyReport"
    /\ Len(pkgset) = 3
    /\ \A i \in 1..2 : pkgset[i].keywords = {kw("~", "amd64"), kw("~", "x86")}
    /\ pkgset[3].keywords = {kw("", "amd64"), kw("", "x86")}
    /\ ArchNames = {"amd64", "x86"}
    /\ emitted = <<>>

\* two results: the arches do not share their unstable versions
C14_WitnessTwo ==
    /\ Fed
    /\ check = "UnstableOnlyReport"
    /\ Len(emitted) = 2

-----------------------------------------------------------------------------
\* Reporters: Reporter.add_report and the built-in reporters.

repository_feed == "repo"
category_feed == "cat"
ebuild_feed == "cat/pkg-ver+text"

MaxEvents == 4
ChildReporterCounts == 0..3

\* a result: its class, the threshold of the class, the coordinates it keeps
\* and the verbosity add_report stamped on it, if any
Result(class, threshold, category, package, version) ==
    [class |-> class, threshold |-> threshold, category |-> category,
     package |-> package, version |-> version,
     stamped |-> FALSE, verbosity |-> 0]
Results ==
    {Result("MetadataError", versioned_feed, "a", "p", "1"),
     Result("UnstableOnly", package_feed, "a", "p", ""),
     Result("UnstableOnly", package_feed, "b", "q", ""),
     Result("CategoryResult", category_feed, "a", "", ""),
     Result("RepoResult", repository_feed, "", "", "")}
NoResult == Result("none", "none", "", "", "")

\* Result.color: red for an Error, yellow for a Warning, green otherwise
color(r) ==
    IF r.class = "MetadataError" THEN "red"
    ELSE IF r.class = "UnstableOnly" THEN "yellow"
    ELSE "green"
\* Result.desc
desc(r) ==
    IF r.stamped /\ r.verbosity # 0 THEN "long_desc"
    ELSE "short_desc"

\* the arguments keywords and verbosity of Reporter.__init__; None by default
None == [given |-> FALSE, classes |-> {}, level |-> 0]
Keywords(classes) == [given |-> TRUE, classes |-> classes, level |-> 0]
Verbosity(level) == [given |-> TRUE, classes |-> {}, level |-> level]
KeywordArgs ==
    {None, Keywords({}), Keywords({"MetadataError"}),
     Keywords({"UnstableOnly", "CategoryResult"})}
VerbosityArgs == {None, Verbosity(1)}

\* Reporter.__init__
Reporter_init(kls, keywords, verbosity, children) ==
    [kls |-> kls, initialised |-> TRUE, raised |-> "none",
     verbosity |-> IF verbosity.given THEN verbosity.level ELSE 0,
     filtered_keywords |-> keywords, reporters |-> children]
\* NullReporter.__init__ sets nothing
NullReporter_init ==
    [kls |-> "NullReporter", initialised |-> FALSE, raised |-> "none",
     verbosity |-> 0, filtered_keywords |-> None, reporters |-> 0]
\* MultiplexReporter.__init__
MinChildren == 2
MultiplexReporter_init(children, keywords, verbosity) ==
    IF children < MinChildren
    THEN [kls |-> "MultiplexReporter", initialised |-> FALSE,
          raised |-> "ValueError", verbosity |-> 0,
          filtered_keywords |-> None, reporters |-> children]
    ELSE Reporter_init("MultiplexReporter", keywords, verbosity, children)

Reporters ==
    {Reporter_init(kls, k, v, 0) :
        kls \in {"StrReporter", "FancyReporter"},
        k \in KeywordArgs, v \in VerbosityArgs}
    \cup {NullReporter_init}
    \cup {MultiplexReporter_init(n, k, v) :
             n \in ChildReporterCounts,
             k \in {None, Keywords({"MetadataError"})}, v \in VerbosityArgs}

\* out.write() of no arguments
blank == [kind |-> "blank", prefix |-> <<>>, text |-> <<>>]

\* StrReporter.process_report: the line of a result
StrLine(r) ==
    [kind |-> "result",
     prefix |-> IF r.threshold = versioned_feed
                THEN <<r.category, r.package, r.version>>
                ELSE IF r.threshold = package_feed
                THEN <<r.category, r.package>>
                ELSE IF r.threshold = category_feed THEN <<r.category>>
                ELSE <<>>,
     text |-> <<desc(r)>>]

\* FancyReporter.process_report: the key of a result, its header, its line
GroupKey(r) ==
    IF r.threshold \in {versioned_feed, package_feed}
    THEN <<r.category, r.package>>
    ELSE IF r.threshold = category_feed THEN <<r.category>>
    ELSE <<"repo">>
Header(k) == [kind |-> "header", prefix |-> <<>>, text |-> k]
FancyLine(r) ==
    [kind |-> "result", prefix |-> <<"  ">>,
     text |-> <<color(r), r.class,
                IF r.threshold = versioned_feed THEN r.version ELSE "",
                desc(r)>>]
\* if key != self.key
NewGroup(k, last) == k # last

\* Result.level
level(r) ==
    IF r.class = "MetadataError" THEN "error"
    ELSE IF r.class = "UnstableOnly" THEN "warning"
    ELSE "info"
\* JsonReporter.process_report: the keys the object nests under, then
\* '_' + level, the class name and the description
JsonObject(r) ==
    [kind |-> "json",
     prefix |-> IF r.threshold = repository_feed THEN <<>>
                ELSE IF r.threshold = category_feed THEN <<r.category>>
                ELSE IF r.threshold = package_feed
                THEN <<r.category, r.package>>
                ELSE <<r.category, r.package, r.version>>,
     text |-> <<level(r), r.class, desc(r)>>]
\* XmlReporter.threshold_map: the fields of the template of a threshold
threshold_map(threshold) ==
    IF threshold = repository_feed THEN <<>>
    ELSE IF threshold = category_feed THEN <<"category">>
    ELSE IF threshold = package_feed THEN <<"category", "package">>
    ELSE <<"category", "package", "version">>
\* XmlReporter.process_report: the template filled in
XmlRecord(r) ==
    LET fields == threshold_map(r.threshold)
    IN [kind |-> "xml",
        prefix |-> [i \in 1..Len(fields) |-> r[fields[i]]],
        text |-> <<r.class, desc(r)>>]
\* XmlReporter.start and XmlReporter.finish
envelope(tag) == [kind |-> "envelope", prefix |-> <<>>, text |-> <<tag>>]

\* what a call does to the reporter: st holds first_report, key, out,
\* processed and child_events
process_report(rep, r, st) ==
    IF rep.kls = "StrReporter"
    THEN [st EXCEPT
            !.first_report = FALSE,
            !.out = (IF st.first_report THEN Append(@, blank) ELSE @)
                        \o <<StrLine(r)>>,
            !.processed = Append(@, r)]
    ELSE IF rep.kls = "FancyReporter"
    THEN [st EXCEPT
            !.key = GroupKey(r),
            !.out = (IF NewGroup(GroupKey(r), st.key)
                     THEN @ \o <<blank, Header(GroupKey(r))>> ELSE @)
                        \o <<FancyLine(r)>>,
            !.processed = Append(@, r)]
    ELSE IF rep.kls = "MultiplexReporter"
    THEN [st EXCEPT
            !.child_events = [c \in 1..rep.reporters |->
                Append(@[c], [op |-> "process_report", result |-> r])],
            !.processed = Append(@, r)]
    ELSE IF rep.kls = "JsonReporter"
    THEN [st EXCEPT !.out = Append(@, JsonObject(r)),
                    !.processed = Append(@, r)]
    ELSE IF rep.kls = "XmlReporter"
    THEN [st EXCEPT !.out = Append(@, XmlRecord(r)),
                    !.processed = Append(@, r)]
    ELSE [st EXCEPT !.processed = Append(@, r)]

\* if self._filtered_keywords is None or result.__class__ in ...
Accepts_all(rep, r) == TRUE
Accepts(rep, r) ==
    ~rep.filtered_keywords.given \/ r.class \in rep.filtered_keywords.classes

\* Reporter.add_report: the result as the call leaves it, what the call
\* raised and the state after it
add_report(rep, r, st) ==
    IF ~rep.initialised
    THEN [result |-> r, raised |-> "AttributeError", st |-> st]
    ELSE IF Accepts(rep, r)
    THEN LET stamped == [r EXCEPT !.stamped = TRUE,
                                  !.verbosity = rep.verbosity]
         IN [result |-> stamped, raised |-> "none",
             st |-> process_report(rep, stamped, st)]
    ELSE [result |-> r, raised |-> "none", st |-> st]

\* start, start_check, end_check and finish
Forwards(op) == op \in {"start", "finish"}
\* StrReporter.finish: if not self._first_report
TrailingBlank_always(st) == TRUE
TrailingBlank(st) == ~st.first_report
reporter_event(rep, op, st) ==
    IF rep.kls = "StrReporter" /\ op = "finish"
    THEN [st EXCEPT !.out = IF TrailingBlank(st) THEN Append(@, blank) ELSE @]
    ELSE IF rep.kls = "MultiplexReporter" /\ Forwards(op)
    THEN [st EXCEPT
            !.child_events = [c \in 1..rep.reporters |->
                Append(@[c], [op |-> op, result |-> NoResult])]]
    ELSE IF rep.kls = "XmlReporter" /\ op = "start"
    THEN [st EXCEPT !.out = Append(@, envelope("<checks>"))]
    ELSE IF rep.kls = "XmlReporter" /\ op = "finish"
    THEN [st EXCEPT !.out = Append(@, envelope("</checks>"))]
    ELSE st

ReporterState ==
    [first_report |-> first_report, key |-> key, out |-> out,
     processed |-> processed, child_events |-> child_events]

\* a reporter has been made, or its construction was rejected
ReporterInit ==
    /\ PlugIdle
    /\ RunnerIdle
    /\ CheckIdle
    /\ FilterIdle
    /\ RestIdle
    /\ reporter \in Reporters
    /\ first_report = TRUE
    /\ key = <<>>
    /\ out = <<>>
    /\ events = <<>>
    /\ processed = <<>>
    /\ child_events = [c \in 1..(IF reporter.raised = "none"
                                 THEN reporter.reporters ELSE 0) |-> <<>>]

Callable == reporter.kls # "none" /\ reporter.raised = "none"
                /\ Len(events) < MaxEvents

\* a call of start, start_check, end_check or finish
ReporterCall(op) ==
    /\ Callable
    /\ LET st == reporter_event(reporter, op, ReporterState)
       IN /\ first_report' = st.first_report
          /\ key' = st.key
          /\ out' = st.out
          /\ processed' = st.processed
          /\ child_events' = st.child_events
          /\ events' = Append(events, [op |-> op, result |-> NoResult,
                                       raised |-> "none"])
    /\ UNCHANGED reporter
    /\ UNCHANGED otherThanReporter

ReporterStart == ReporterCall("start")
ReporterStartCheck == ReporterCall("start_check")
ReporterEndCheck == ReporterCall("end_check")
ReporterFinish == ReporterCall("finish")

\* reporter.add_report(result)
ReporterAddReport ==
    /\ Callable
    /\ \E r \in Results :
          LET done_call == add_report(reporter, r, ReporterState)
          IN /\ first_report' = done_call.st.first_report
             /\ key' = done_call.st.key
             /\ out' = done_call.st.out
             /\ processed' = done_call.st.processed
             /\ child_events' = done_call.st.child_events
             /\ events' = Append(events, [op |-> "add_report",
                                          result |-> done_call.result,
                                          raised |-> done_call.raised])
    /\ UNCHANGED reporter
    /\ UNCHANGED otherThanReporter

NextReporter ==
    \/ ReporterStart
    \/ ReporterStartCheck
    \/ ReporterAddReport
    \/ ReporterEndCheck
    \/ ReporterFinish

SpecReporter == ReporterInit /\ [][NextReporter]_vars

\* the results add_report was called with, as the calls left them
Given ==
    LET adds == SelectSeq(events, LAMBDA ev : ev.op = "add_report")
    IN [i \in 1..Len(adds) |-> adds[i].result]
InFilter(r) ==
    ~reporter.filtered_keywords.given
        \/ r.class \in reporter.filtered_keywords.classes

\* C15: on a reporter set up by Reporter.__init__ with keyword filter F,
\* process_report has been invoked exactly for the results given to
\* add_report whose class is in F (for all of them without a filter), in call
\* order, each carrying the reporter's verbosity; the others are as given.
C15_KeywordFilter ==
    (reporter.kls # "none" /\ reporter.initialised) =>
        /\ processed = SelectSeq(Given, InFilter)
        /\ \A i \in 1..Len(processed) :
              /\ processed[i].stamped
              /\ processed[i].verbosity = reporter.verbosity
              /\ [processed[i] EXCEPT !.stamped = FALSE, !.verbosity = 0]
                    \in Results
        /\ \A i \in 1..Len(Given) :
              ~InFilter(Given[i]) => Given[i] \in Results
        /\ \A i \in 1..Len(events) : events[i].raised = "none"

\* a reporter with a filter and a verbosity that was given a result of its
\* filter between two results outside it
C15_Witness ==
    /\ reporter.kls = "StrReporter"
    /\ reporter.filtered_keywords = Keywords({"MetadataError"})
    /\ reporter.verbosity = 1
    /\ Len(Given) = 3
    /\ Given[1].class = "UnstableOnly"
    /\ Given[2].class = "MetadataError"
    /\ Given[3].class = "RepoResult"
    /\ Len(processed) = 1
    /\ processed[1].verbosity = 1

\* a reporter with the empty filter drops everything
C15_WitnessEmpty ==
    /\ reporter.kls = "FancyReporter"
    /\ reporter.filtered_keywords = Keywords({})
    /\ Len(Given) = 2
    /\ processed = <<>>

\* what a child of a multiplex reporter receives if every event is forwarded
ForwardedEvents ==
    LET fw == SelectSeq(events,
                  LAMBDA ev : ev.op # "add_report" \/ InFilter(ev.result))
    IN [i \in 1..Len(fw) |->
           [op |-> IF fw[i].op = "add_report" THEN "process_report"
                   ELSE fw[i].op,
            result |-> fw[i].result]]

\* C16: a MultiplexReporter is made only with at least two children, and
\* every child has received every event (start, start_check, each accepted
\* result, end_check, finish) in the order of the calls.
C16_FanOut ==
    reporter.kls = "MultiplexReporter" =>
        /\ reporter.raised = "none" <=> reporter.reporters >= 2
        /\ reporter.raised # "none" => reporter.raised = "ValueError"
        /\ \A c \in 1..Len(child_events) : child_events[c] = ForwardedEvents

\* C17: the Null reporter takes any sequence of start, start_check,
\* add_report, end_check and finish without raising and writes nothing.
C17_NullAccepts ==
    reporter.kls = "NullReporter" =>
        /\ out = <<>>
        /\ \A i \in 1..Len(events) : events[i].raised = "none"

\* results were reported and then finish was called, once
FinishedOnce ==
    /\ events # <<>>
    /\ events[Len(events)].op = "finish"
    /\ \A i \in 1..(Len(events) - 1) : events[i].op # "finish"
ResultLines == [i \in 1..Len(processed) |-> StrLine(processed[i])]

\* C18 as stated: after any sequence of results and then finish, the Line
\* reporter has written a blank line before the first result line, one line
\* per result in arrival order and a blank line at finish.
C18_Original ==
    (reporter.kls = "StrReporter" /\ FinishedOnce) =>
        out = (IF processed = <<>> THEN <<>> ELSE <<blank>>)
                  \o ResultLines \o <<blank>>

\* C18: after any sequence of results and then finish, the Line reporter has
\* written nothing if no result was written, and otherwise a blank line, one
\* line per result in arrival order and a blank line at finish.
C18_BlankLines ==
    (reporter.kls = "StrReporter" /\ FinishedOnce) =>
        out = IF processed = <<>> THEN <<>>
              ELSE <<blank>> \o ResultLines \o <<blank>>

\* two results and then finish: four lines
C18_Witness ==
    /\ reporter.kls = "StrReporter"
    /\ FinishedOnce
    /\ Len(processed) = 2
    /\ processed[1] # processed[2]
    /\ Len(out) = 4

\* finish with no result written: nothing written
C18_WitnessEmpty ==
    /\ reporter.kls = "StrReporter"
    /\ FinishedOnce
    /\ processed = <<>>
    /\ Len(Given) = 1
    /\ out = <<>>

\* the header a result line stands under
RECURSIVE HeaderAbove(_)
HeaderAbove(i) ==
    IF i = 0 THEN <<>>
    ELSE IF out[i].kind = "header" THEN out[i].text
    ELSE HeaderAbove(i - 1)
ResultLinePositions == {i \in 1..Len(out) : out[i].kind = "result"}

\* C19: the Grouped reporter has printed the header of each group key once,
\* before the first result of the key, also when keys arrive interleaved, and
\* every result stands indented under the header of its key.
C19_HeaderOnce ==
    reporter.kls = "FancyReporter" =>
        /\ \A r \in SeqToSet(processed) :
              Count(out, Header(GroupKey(r))) = 1
        /\ Cardinality(ResultLinePositions) = Len(processed)
        /\ \A n \in 1..Len(processed) :
              \E i \in ResultLinePositions :
                  /\ Cardinality({j \in ResultLinePositions : j <= i}) = n
                  /\ out[i] = FancyLine(processed[n])
                  /\ HeaderAbove(i) = GroupKey(processed[n])

-----------------------------------------------------------------------------
\* convert_check_filter: strings are sequences of characters.

TokLengths == 1..3
NameLengths == 1..5
TokChars == {"a", "s", "S", ".", "*", "+", "\\"}
NameChars == {"a", "S", "."}

\* str.lower(), character by character
lower_char(c) == IF c = "S" THEN "s" ELSE IF c = "A" THEN "a" ELSE c
lower(str) == [i \in 1..Len(str) |-> lower_char(str[i])]

RECURSIVE split_from(_, _, _, _)
\* str.split('.')
split_from(str, i, chunk, chunks) ==
    IF i > Len(str) THEN Append(chunks, chunk)
    ELSE IF str[i] = "." THEN split_from(str, i + 1, <<>>, Append(chunks, chunk))
    ELSE split_from(str, i + 1, Append(chunk, str[i]), chunks)
split(str) == split_from(str, 1, <<>>, <<>>)

\* chunks[i:i + n], i counted from 0
slice(chunks, i, n) ==
    SubSeq(chunks, i + 1, IF i + n > Len(chunks) THEN Len(chunks) ELSE i + n)

\* func(name) of convert_check_filter, toklist being tok.split('.')
func(toklist, str) ==
    LET chunks == split(lower(str))
    IN IF Len(toklist) > Len(chunks) THEN FALSE
       ELSE \E i \in 0..(Len(chunks) - 1) :
               slice(chunks, i, Len(toklist)) = toklist

\* A regular expression over the characters: a piece is a character, "."
\* or an escape \s / \S, and may be followed by "*" or "+".
Quantifiers == {"*", "+"}
RECURSIVE parse(_, _)
parse(pattern, i) ==
    IF i > Len(pattern) THEN <<>>
    ELSE LET escaped == pattern[i] = "\\"
             width == IF escaped THEN 2 ELSE 1
             atom == IF escaped THEN <<"\\", pattern[i + 1]>>
                     ELSE <<pattern[i]>>
             quantified == i + width <= Len(pattern)
                               /\ pattern[i + width] \in Quantifiers
             piece == [atom |-> atom,
                       quantifier |-> IF quantified THEN pattern[i + width]
                                      ELSE ""]
         IN <<piece>> \o parse(pattern, i + width + (IF quantified THEN 1 ELSE 0))

\* what re.compile accepts of these patterns
RECURSIVE compiles(_, _)
compiles(pattern, i) ==
    IF i > Len(pattern) THEN TRUE
    ELSE IF pattern[i] \in Quantifiers THEN FALSE
    ELSE IF pattern[i] = "\\"
         THEN /\ i + 1 <= Len(pattern)
              /\ pattern[i + 1] \in {"s", "S"}
              /\ compiles(pattern, i + 2 + (IF i + 2 <= Len(pattern)
                                  /\ pattern[i + 2] \in Quantifiers
                               THEN 1 ELSE 0))
    ELSE compiles(pattern, i + 1 + (IF i + 1 <= Len(pattern)
                            /\ pattern[i + 1] \in Quantifiers
                         THEN 1 ELSE 0))

\* one character against one atom, under re.I
atom_matches(atom, c) ==
    IF atom = <<"\\", "s">> THEN c = " "
    ELSE IF atom = <<"\\", "S">> THEN c # " "
    ELSE IF atom = <<".">> THEN TRUE
    ELSE lower_char(atom[1]) = lower_char(c)

RECURSIVE match_from(_, _, _, _)
\* pattern.match(str): the pieces from i on match str from j on
match_from(pieces, i, str, j) ==
    IF i > Len(pieces) THEN TRUE
    ELSE LET piece == pieces[i]
             here == j <= Len(str) /\ atom_matches(piece.atom, str[j])
         IN IF piece.quantifier = ""
            THEN here /\ match_from(pieces, i + 1, str, j + 1)
            ELSE IF piece.quantifier = "*"
            THEN \/ match_from(pieces, i + 1, str, j)
                 \/ here /\ match_from(pieces, i, str, j + 1)
            ELSE here /\ (\/ match_from(pieces, i + 1, str, j + 1)
                          \/ match_from(pieces, i, str, j + 1))
re_match(pattern, str) == match_from(parse(pattern, 1), 1, str, 1)

HasQuantifier(str) == \E i \in 1..Len(str) : str[i] \in Quantifiers

\* convert_check_filter(token)(str)
convert_check_filter(token, str) ==
    LET lowered == lower(token)
    IN IF HasQuantifier(lowered)
       THEN IF re_match(lowered, str) THEN "accept" ELSE "reject"
       ELSE IF func(split(lowered), str) THEN "accept" ELSE "reject"

\* a token and a qualified name have been chosen; a token with "*" or "+"
\* is one re.compile accepts
FilterInit ==
    /\ PlugIdle
    /\ RunnerIdle
    /\ CheckIdle
    /\ ReporterIdle
    /\ RestIdle
    /\ \E n \in TokLengths : tok \in [1..n -> TokChars]
    /\ HasQuantifier(tok) => compiles(tok, 1)
    /\ \E n \in NameLengths : name \in [1..n -> NameChars]
    /\ verdict = "new"

\* convert_check_filter(tok)(name)
ConvertCheckFilter ==
    /\ verdict = "new"
    /\ verdict' = convert_check_filter(tok, name)
    /\ UNCHANGED <<tok, name>>
    /\ UNCHANGED otherThanFilter

NextFilter == ConvertCheckFilter

SpecFilter == FilterInit /\ [][NextFilter]_vars

\* some consecutive run of the name's components equals the token's
\* components, case ignored
RunOfComponents ==
    LET T == split(tok)
        C == split(name)
    IN \E i \in 1..(Len(C) - Len(T) + 1) :
           \A k \in 1..Len(T) : lower(C[i + k - 1]) = lower(T[k])

\* C20: a token with neither "+" nor "*" accepts a qualified name iff some
\* consecutive run of the name's dot-separated components equals the token's
\* components, case ignored; a token with "+" or "*" accepts it iff the token,
\* as a case-insensitive regular expression, matches the name from its start.
C20_CheckFilter ==
    verdict \in {"accept", "reject"} =>
        (verdict = "accept" <=>
            IF HasQuantifier(tok) THEN re_match(tok, name)
            ELSE RunOfComponents)

-----------------------------------------------------------------------------
\* Whitelist and Blacklist (base.py:327-357): the check sets made of
\* convert_check_filter patterns.

PatternCounts == 0..2
CheckCounts == 0..3
MaxFilters == 3

\* the tokens 'c', 'u', 'A' and the regular expression 'm.*'
Tokens == {<<"c">>, <<"u">>, <<"A">>, <<"m", ".", "*">>}

\* '<module>.<class>' of the checks: m.c.A, m.c.S, m.u.a and u.m.c
QualifiedNames == {<<"m", ".", "c", ".", "A">>, <<"m", ".", "c", ".", "S">>,
                   <<"m", ".", "u", ".", "a">>, <<"u", ".", "m", ".", "c">>}

\* _CheckSet.__init__: one filter function per pattern; the function of
\* pattern pats[i] is convert_check_filter(pats[i], .)
CheckSet_init(pats) == pats

\* any(p(qualified) for p in self.patterns)
any_all_patterns(pats, qualified) ==
    \A i \in 1..Len(pats) : convert_check_filter(pats[i], qualified) = "accept"
any(pats, qualified) ==
    \E i \in 1..Len(pats) : convert_check_filter(pats[i], qualified) = "accept"

\* Whitelist.filter(checks)
Whitelist_filter(pats, cs) == SelectSeq(cs, LAMBDA c : any(pats, c))

\* Blacklist.filter(checks)
Blacklist_filter(pats, cs) == SelectSeq(cs, LAMBDA c : ~any(pats, c))

\* a Whitelist and a Blacklist have been made and the checks listed
ChecksetInit ==
    /\ PlugIdle
    /\ RunnerIdle
    /\ CheckIdle
    /\ ReporterIdle
    /\ FilterIdle
    /\ SinkIdle
    /\ StateIdle
    /\ MainIdle
    /\ \E n \in PatternCounts : \E m \in PatternCounts :
           \E w \in [1..n -> Tokens] : \E b \in [1..m -> Tokens] :
               patterns = [Whitelist |-> CheckSet_init(w),
                           Blacklist |-> CheckSet_init(b)]
    /\ \E n \in CheckCounts : \E cs \in [1..n -> QualifiedNames] :
           /\ \A i, j \in 1..n : cs[i] = cs[j] => i = j
           /\ objs = cs
    /\ kept = objs
    /\ applied = <<>>

\* checks = whitelist.filter(checks)
ApplyWhitelist ==
    /\ Len(applied) < MaxFilters
    /\ "idle" \notin SeqToSet(applied)
    /\ kept' = Whitelist_filter(patterns.Whitelist, kept)
    /\ applied' = Append(applied, "Whitelist")
    /\ UNCHANGED <<patterns, objs>>
    /\ UNCHANGED otherThanCheckset

\* checks = blacklist.filter(checks)
ApplyBlacklist ==
    /\ Len(applied) < MaxFilters
    /\ "idle" \notin SeqToSet(applied)
    /\ kept' = Blacklist_filter(patterns.Blacklist, kept)
    /\ applied' = Append(applied, "Blacklist")
    /\ UNCHANGED <<patterns, objs>>
    /\ UNCHANGED otherThanCheckset

NextCheckset == ApplyWhitelist \/ ApplyBlacklist

SpecCheckset == ChecksetInit /\ [][NextCheckset]_vars

\* the qualified name matches at least one of the patterns
MatchesSome(pats, qualified) ==
    \E p \in SeqToSet(pats) : convert_check_filter(p, qualified) = "accept"

\* C21: whatever filters were applied, in whatever order and however often,
\* the checks kept are the input checks, in input order, that match some
\* whitelist pattern if a Whitelist was applied and no blacklist pattern if a
\* Blacklist was applied: each filter keeps exactly its checks, is idempotent,
\* and the two commute.
C21_Checkset ==
    applied # <<"idle">> =>
        kept = SelectSeq(objs, LAMBDA c :
                   /\ "Whitelist" \in SeqToSet(applied)
                          => MatchesSome(patterns.Whitelist, c)
                   /\ "Blacklist" \in SeqToSet(applied)
                          => ~MatchesSome(patterns.Blacklist, c))

\* whitelist ['c'] then blacklist ['u'] on m.c.A, m.c.S, m.u.a
C21_Witness ==
    /\ patterns = [Whitelist |-> <<<<"c">>>>, Blacklist |-> <<<<"u">>>>]
    /\ objs = <<<<"m", ".", "c", ".", "A">>, <<"m", ".", "c", ".", "S">>,
                <<"m", ".", "u", ".", "a">>>>
    /\ applied = <<"Whitelist", "Blacklist">>
    /\ kept = <<<<"m", ".", "c", ".", "A">>, <<"m", ".", "c", ".", "S">>>>

-----------------------------------------------------------------------------
\* Result.__getstate__ / Result.__setstate__ (base.py:213-229).  A mapping
\* is a function from attribute names to values.

Values == {"1", "2"}

\* the result classes: the three of the repository, and a class deriving
\* from Warning that declares no attribute of its own (it inherits
\* Result.__slots__ = (), base.py:167)
Kinds == {"MetadataError", "RedundantVersion", "UnstableOnly", "Warning"}

\* __slots__ of the class (base.py:243, cleanup.py:9, unstable_only.py:12)
slots(k) ==
    IF k = "MetadataError"
    THEN {"category", "package", "version", "attr", "msg"}
    ELSE IF k = "RedundantVersion"
    THEN {"category", "package", "version", "slot", "later_versions"}
    ELSE IF k = "UnstableOnly"
    THEN {"category", "package", "versions", "arches"}
    ELSE {}

\* keys no class declares
OtherKeys == {"_verbosity", "extra"}

\* f without the keys outside keep
Restrict(f, keep) == [k \in (DOMAIN f) \cap keep |-> f[k]]

\* f and g together, g's keys being new
Merge(f, g) ==
    [k \in (DOMAIN f) \cup (DOMAIN g) |-> IF k \in DOMAIN f THEN f[k] ELSE g[k]]

Raised(exc) == [returned |-> exc, data |-> <<>>]
Returned(d) == [returned |-> "dict", data |-> d]
ReturnedNone == [returned |-> "None", data |-> <<>>]

\* object.__getstate__(self): the instance __dict__, or None when it is
\* empty, where the interpreter has object.__getstate__ (3.11 on); an
\* AttributeError where it has not
object_getstate(inst, has_getstate) ==
    IF ~has_getstate THEN Raised("AttributeError")
    ELSE IF inst.dict = <<>> THEN ReturnedNone
    ELSE Returned(inst.dict)

\* Result.__getstate__
getstate(k, inst, has_getstate) ==
    LET attrs == slots(k)
    IN IF attrs # {}
       THEN IF attrs \subseteq DOMAIN inst.slots
            THEN Returned([a \in attrs |-> inst.slots[a]])
            ELSE Raised("AttributeError")
       ELSE object_getstate(inst, has_getstate)

\* the test of base.py:225
Incomplete(attrs, data) ==
    \/ attrs \ (DOMAIN data) # {}
    \/ Cardinality(attrs) # Cardinality(DOMAIN data)

\* Result.__setstate__ on a fresh instance: what it raised, and the
\* attributes the instance has afterwards
setstate(k, state) ==
    LET attrs == slots(k)
    IN IF state.returned = "None"
       THEN [raised |-> "TypeError", attributes |-> <<>>]
       ELSE IF Incomplete(attrs, state.data)
       THEN [raised |-> "TypeError", attributes |-> <<>>]
       ELSE [raised |-> "", attributes |-> state.data]

\* a result made by its class's __init__, which sets every slot; its
\* __dict__ holds _verbosity once a reporter's add_report has seen it
StateInit ==
    /\ PlugIdle
    /\ RunnerIdle
    /\ CheckIdle
    /\ ReporterIdle
    /\ FilterIdle
    /\ SinkIdle
    /\ ChecksetIdle
    /\ MainIdle
    /\ kind \in Kinds
    /\ \E s \in [slots(kind) -> Values] :
           \E d \in {<<>>} \cup [{"_verbosity"} -> Values] :
               instance = [slots |-> s, dict |-> d]
    /\ pickled = [returned |-> "new", data |-> <<>>]
    /\ given = [returned |-> "new", data |-> <<>>]
    /\ restored = <<>>
    /\ unpickled = "new"

\* state = instance.__getstate__()
GetState ==
    /\ pickled.returned = "new"
    /\ \E has_getstate \in BOOLEAN :
           pickled' = getstate(kind, instance, has_getstate)
    /\ UNCHANGED <<kind, instance, given, restored, unpickled>>
    /\ UNCHANGED otherThanState

\* fresh = cls.__new__(cls); fresh.__setstate__(state)
SetStateRoundTrip ==
    /\ pickled.returned \in {"dict", "None"}
    /\ unpickled = "new"
    /\ given' = pickled
    /\ LET answer == setstate(kind, pickled)
       IN /\ unpickled' = IF answer.raised = "" THEN "restored" ELSE answer.raised
          /\ restored' = answer.attributes
    /\ UNCHANGED <<kind, instance, pickled>>
    /\ UNCHANGED otherThanState

\* fresh.__setstate__(data), data being some other mapping: keys of the
\* instance left out, undeclared keys added
SetStateOther ==
    /\ unpickled = "new"
    /\ \E keep \in SUBSET slots(kind) : \E more \in SUBSET OtherKeys :
         \E extra \in [more -> Values] :
           LET data == Returned(Merge(Restrict(instance.slots, keep), extra))
               answer == setstate(kind, data)
           IN /\ given' = data
              /\ unpickled' = IF answer.raised = "" THEN "restored"
                              ELSE answer.raised
              /\ restored' = answer.attributes
    /\ UNCHANGED <<kind, instance, pickled>>
    /\ UNCHANGED otherThanState

NextState == GetState \/ SetStateRoundTrip \/ SetStateOther

SpecState == StateInit /\ [][NextState]_vars

\* __getstate__ returned a mapping of exactly the declared attributes
PickledDeclared ==
    /\ pickled.returned = "dict"
    /\ pickled.data = [a \in slots(kind) |-> instance.slots[a]]

\* the fresh instance has exactly the declared attributes, with the values
\* of the original
RestoredDeclared ==
    /\ unpickled = "restored"
    /\ restored = [a \in slots(kind) |-> instance.slots[a]]

\* C22 (stated as claimed): for every result class __getstate__ returns a
\* mapping that __setstate__ turns, on a fresh instance, into exactly the
\* declared attributes with equal values; and __setstate__ with a mapping
\* whose key set differs from the declared attributes raises and sets nothing.
C22_RoundTrip ==
    /\ pickled.returned \notin {"idle", "new"} => PickledDeclared
    /\ (given.returned \notin {"idle", "new"} /\ given = pickled)
           => RestoredDeclared
    /\ (given.returned = "dict" /\ DOMAIN given.data # slots(kind))
           => unpickled = "TypeError" /\ restored = <<>>

-----------------------------------------------------------------------------
\* main(options, out, err) of the command line (pcheck.py:175-232).

MainCheckCounts == 0..2
LimiterCounts == 1..2

\* what the check's requires hold: no FinalizingOption, one whose finalize
\* returns, or one whose finalize raises optparse.OptionValueError
FinalizeOutcomes == {"none", "ok", "OptionValueError"}

\* what runner.add_check(obj) does: the list of the Feeder the check lands
\* in, or the exception it raises
FeederLists == {"repo_checks", "cat_checks", "pkg_checks", "ver_checks"}
AddOutcomes == FeederLists \cup {"Exception"}

\* base.Feeder(options.target_repo, options), no check added yet
Feeder == [l \in FeederLists |-> <<>>]

\* pcheck.py:220-221
NoTests_version_only(r) == r["ver_checks"] = <<>>
NoTests(r) == \A l \in FeederLists : r[l] = <<>>

At(at, i) == [at |-> at, i |-> i]

\* main() is about to be called with the parsed options
MainInit ==
    /\ PlugIdle
    /\ RunnerIdle
    /\ CheckIdle
    /\ ReporterIdle
    /\ FilterIdle
    /\ SinkIdle
    /\ ChecksetIdle
    /\ StateIdle
    /\ \E n \in MainCheckCounts :
         \E cs \in [1..n -> [finalize : FinalizeOutcomes, add : AddOutcomes]] :
           \E list_checks \in BOOLEAN, to_xml \in BOOLEAN, dbg \in BOOLEAN :
             \E limiters \in LimiterCounts :
               options = [list_checks |-> list_checks, to_xml |-> to_xml,
                          debug |-> dbg, checks |-> cs, limiters |-> limiters]
    /\ main_pc = At("start", 0)
    /\ seen = {}
    /\ runner = <<>>
    /\ main_reporter = [kls |-> "none", stage |-> "none"]
    /\ ran = <<>>
    /\ returned = <<>>

\* pcheck.py:178-180
MainListChecks ==
    /\ main_pc.at = "start"
    /\ options.list_checks
    /\ returned' = <<0>>
    /\ main_pc' = At("returned", 0)
    /\ UNCHANGED <<options, seen, runner, main_reporter, ran>>
    /\ UNCHANGED otherThanMain

\* pcheck.py:182-193
MainSetup ==
    /\ main_pc.at = "start"
    /\ ~options.list_checks
    /\ main_reporter' = [kls |-> IF options.to_xml THEN "XmlReporter"
                                 ELSE "StrReporter",
                         stage |-> "made"]
    /\ runner' = Feeder
    /\ seen' = {}
    /\ main_pc' = At("finalize", 1)
    /\ UNCHANGED <<options, ran, returned>>
    /\ UNCHANGED otherThanMain

\* pcheck.py:194-203, one check of the loop
MainFinalize ==
    /\ main_pc.at = "finalize"
    /\ main_pc.i <= Len(options.checks)
    /\ LET c == options.checks[main_pc.i]
       IN IF c.finalize = "OptionValueError"
          THEN /\ returned' = <<-1>>
               /\ main_pc' = At("returned", 0)
               /\ UNCHANGED seen
          ELSE /\ seen' = IF c.finalize = "ok" THEN seen \cup {main_pc.i}
                          ELSE seen
               /\ main_pc' = At("finalize", main_pc.i + 1)
               /\ UNCHANGED returned
    /\ UNCHANGED <<options, runner, main_reporter, ran>>
    /\ UNCHANGED otherThanMain

\* pcheck.py:194-205, the loop is over
MainFinalized ==
    /\ main_pc.at = "finalize"
    /\ main_pc.i > Len(options.checks)
    /\ main_pc' = At("add", 1)
    /\ UNCHANGED <<options, seen, runner, main_reporter, ran, returned>>
    /\ UNCHANGED otherThanMain

\* pcheck.py:205-213, one check of the loop
MainAddCheck ==
    /\ main_pc.at = "add"
    /\ main_pc.i <= Len(options.checks)
    /\ LET c == options.checks[main_pc.i]
       IN IF c.add = "Exception"
          THEN /\ main_pc' = IF options.debug THEN At("raised", 0)
                             ELSE At("add", main_pc.i + 1)
               /\ UNCHANGED runner
          ELSE /\ runner' = [runner EXCEPT ![c.add] = Append(@, main_pc.i)]
               /\ main_pc' = At("add", main_pc.i + 1)
    /\ UNCHANGED <<options, seen, main_reporter, ran, returned>>
    /\ UNCHANGED otherThanMain

\* pcheck.py:215-224
MainStart ==
    /\ main_pc.at = "add"
    /\ main_pc.i > Len(options.checks)
    /\ IF NoTests(runner)
       THEN /\ returned' = <<1>>
            /\ main_pc' = At("returned", 0)
            /\ UNCHANGED main_reporter
       ELSE /\ main_reporter' = [main_reporter EXCEPT !.stage = "started"]
            /\ main_pc' = At("run", 1)
            /\ UNCHANGED returned
    /\ UNCHANGED <<options, seen, runner, ran>>
    /\ UNCHANGED otherThanMain

\* pcheck.py:225-226, one limiter; the checks report findings or none
MainRun ==
    /\ main_pc.at = "run"
    /\ main_pc.i <= options.limiters
    /\ \E findings \in BOOLEAN :
           ran' = Append(ran, [filterer |-> main_pc.i, findings |-> findings])
    /\ main_pc' = At("run", main_pc.i + 1)
    /\ UNCHANGED <<options, seen, runner, main_reporter, returned>>
    /\ UNCHANGED otherThanMain

\* pcheck.py:227-232
MainFinish ==
    /\ main_pc.at = "run"
    /\ main_pc.i > options.limiters
    /\ main_reporter' = [main_reporter EXCEPT !.stage = "finished"]
    /\ returned' = <<0>>
    /\ main_pc' = At("returned", 0)
    /\ UNCHANGED <<options, seen, runner, ran>>
    /\ UNCHANGED otherThanMain

NextMain ==
    \/ MainListChecks
    \/ MainSetup
    \/ MainFinalize
    \/ MainFinalized
    \/ MainAddCheck
    \/ MainStart
    \/ MainRun
    \/ MainFinish

SpecMain == MainInit /\ [][NextMain]_vars

\* the run went through: the reporter was started and finished and
\* runner.run was called for every limiter
Completed ==
    /\ main_reporter.stage = "finished"
    /\ Len(ran) = options.limiters

FinalizationFails ==
    \E i \in 1..Len(options.checks) :
        options.checks[i].finalize = "OptionValueError"

ReporterStarted == main_reporter.stage \in {"started", "finished"}

\* no check of options.checks has been added to the runner
NoneAdded ==
    ~\E i \in 1..Len(options.checks) :
        \E l \in DOMAIN runner : i \in SeqToSet(runner[l])

\* C23: main returns 0 after a completed run whatever was found; 0 for
\* --list-checks, with no reporter started and no check run; 1, the reporter
\* not started, when no check is left to run; and -1 when the finalization of
\* an option fails, no check having been added.
C23_ExitCodes ==
    /\ main_pc.at \notin {"idle", "returned"} => returned = <<>>
    /\ main_pc.at = "returned" =>
        /\ Completed => returned = <<0>>
        /\ options.list_checks =>
               returned = <<0>> /\ ~ReporterStarted /\ ran = <<>>
        /\ returned = <<0>> => options.list_checks \/ Completed
        /\ (~options.list_checks /\ ~FinalizationFails) =>
               (returned = <<1>> <=> NoneAdded)
        /\ returned = <<1>> => ~ReporterStarted /\ ran = <<>>
        /\ (~options.list_checks /\ FinalizationFails) =>
               returned = <<-1>> /\ NoneAdded /\ ~ReporterStarted
        /\ returned = <<-1>> => FinalizationFails

\* a completed run that reported findings
C23_Witness ==
    /\ main_pc.at = "returned"
    /\ Completed
    /\ \E i \in 1..Len(ran) : ran[i].findings
    /\ returned = <<0>>

\* --list-checks
C23_WitnessList ==
    /\ main_pc.at = "returned"
    /\ options.list_checks
    /\ Len(options.checks) > 0
    /\ returned = <<0>>

\* every check failed to be added
C23_WitnessNoTests ==
    /\ main_pc.at = "returned"
    /\ Len(options.checks) > 0
    /\ returned = <<1>>

\* the second check's option fails to finalize
C23_WitnessFinalize ==
    /\ main_pc.at = "returned"
    /\ Len(options.checks) = 2
    /\ options.checks[1].finalize = "ok"
    /\ returned = <<-1>>

-----------------------------------------------------------------------------
\* Plans of plug() as trees over feed types.

\* the feed types transforms of T lead to from the feed types reached
RECURSIVE TreeReach(_, _)
TreeReach(reached, T) ==
    LET new == {t.dest : t \in {u \in T : /\ u.source \in reached
                                          /\ u.dest \notin reached}}
    IN IF new = {} THEN reached ELSE TreeReach(reached \cup new, T)

\* T is a tree over feed types rooted at root: no transform leads back to
\* the root, no two lead to the same feed type, and every one hangs off the
\* root
IsFeedTree(root, T) ==
    /\ \A t \in T : t.dest # root
    /\ \A t, u \in T : t.dest = u.dest => t = u
    /\ TreeReach({root}, T) = {root} \cup {t.dest : t \in T}

\* below node, reached over the feed types of path, no transform leads to
\* a feed type of the path
RECURSIVE NoRepeat(_, _, _)
NoRepeat(node, feed_type, path) ==
    \A i \in 1..Len(node.checks) :
        node.checks[i].kind = "transform" =>
            /\ node.checks[i].trans.source = feed_type
            /\ node.checks[i].trans.dest \notin path
            /\ NoRepeat(node.checks[i].child, node.checks[i].trans.dest,
                        path \cup {node.checks[i].trans.dest})

\* the transform nodes of a tree, counted
RECURSIVE transform_count(_)
RECURSIVE children_transform_count(_, _)
children_transform_count(checks, i) ==
    IF i > Len(checks) THEN 0
    ELSE (IF checks[i].kind = "sink" THEN 0
          ELSE 1 + transform_count(checks[i].child))
         + children_transform_count(checks, i + 1)
transform_count(node) == children_transform_count(node.checks, 1)

\* plug() is about to be called with plugins over three feed types, so that
\* the transforms can form chains and cycles: sinks and transforms of version
\* scope, sources and transforms that cost nothing
ChainFeeds == {category_feed, package_feed, versioned_feed}
ChainSinks ==
    UNION {{[i \in 1..n |-> [id |-> i, feed_type |-> a[i],
                             scope |-> version_scope,
                             priority |-> default_priority]] :
              a \in [1..n -> ChainFeeds]} :
           n \in SinkCounts}
ChainSources == [feed_type : ChainFeeds, scope : Scopes, cost : {0}]
ChainTransforms ==
    {t \in [source : ChainFeeds, dest : ChainFeeds,
            scope : {version_scope}, cost : {0}] : t.source # t.dest}
ChainTransformCounts == 0..3

InitChain ==
    /\ RunnerIdle
    /\ CheckIdle
    /\ ReporterIdle
    /\ FilterIdle
    /\ RestIdle
    /\ sinks \in ChainSinks
    /\ sources \in {S \in SUBSET ChainSources :
                       Cardinality(S) \in SourceCounts}
    /\ transforms \in {T \in SUBSET ChainTransforms :
                          Cardinality(T) \in ChainTransformCounts}
    /\ pc = "call"
    /\ PlugLocals
    /\ first_outcome = NoOutcome

SpecChain == InitChain /\ [][Next]_vars

\* the pipes and the combinations of pipes the search holds
SearchPipes == pipes \cup (IF pc = "single" THEN unprocessed ELSE {})
SearchCombinations == done \cup (IF pc = "multi" THEN unprocessed ELSE {})

\* C24: in every state of plug's search and in every returned pipeline the
\* selected transforms form a tree over feed types rooted at the source's
\* feed type: no feed type repeats on a root-to-leaf path and every feed type
\* is the destination of at most one selected transform.
C24_Acyclic ==
    /\ \A p \in SearchPipes :
          /\ IsFeedTree(p.source.feed_type, p.trans)
          /\ p.visited = {p.source.feed_type} \cup {t.dest : t \in p.trans}
    /\ \A c \in SearchCombinations : \A i \in 1..Len(c.seq) :
          IsFeedTree(c.seq[i].source.feed_type, c.seq[i].trans)
    /\ \A i \in 1..Len(pipes_to_run) :
          IsFeedTree(pipes_to_run[i].source.feed_type, pipes_to_run[i].trans)
    /\ pc = "returned" =>
          \A i \in 1..Len(result) :
             LET root == result[i].source.feed_type
                 placed == tree_transforms(result[i].runner)
             IN /\ NoRepeat(result[i].runner, root, {root})
                /\ IsFeedTree(root, placed)
                /\ transform_count(result[i].runner) = Cardinality(placed)

\* a pipeline with a transform is returned although the transforms given to
\* plug() form a cycle
C24_Witness ==
    /\ pc = "returned"
    /\ \E t, u \in transforms : t.source = u.dest /\ t.dest = u.source
    /\ \E i \in 1..Len(result) : transform_count(result[i].runner) = 2

-----------------------------------------------------------------------------
\* The plan plug() finds for the sinks that can be reached.

\* the sink's feed type is reached from some source of at least the sink's
\* scope
ReachableSink(sink) ==
    \E s \in sources :
        s.scope >= sink.scope /\ sink.feed_type \in reachable(s, transforms)
ReachableSinks == {i \in 1..Len(sinks) : ReachableSink(sinks[i])}

\* the feed types the pipelines of a plan reach
PlanFeeds(plan) ==
    UNION {{plan[i].source.feed_type} \cup {t.dest : t \in plan[i].trans} :
             i \in 1..Len(plan)}

\* C25: whenever at least one sink is reachable, the single-pipeline search
\* or the multi-pipeline fallback ends with a plan that covers the feed type
\* of every reachable sink, and the 'did not find a solution?' assertion does
\* not fail; pruning the sources below the lowest required scope and the
\* sources that are not the cheapest of their scope and feed type takes no
\* reachable sink away.
C25_PlanFound ==
    /\ pc # "assert_solution"
    /\ (pc \in Final /\ ReachableSinks # {}) =>
          /\ pipes_to_run # <<>>
          /\ \A i \in ReachableSinks :
                sinks[i].feed_type \in PlanFeeds(pipes_to_run)

\* the fallback found a plan of two pipelines
C25_Witness ==
    /\ pc \in Final
    /\ Len(pipes_to_run) = 2
    /\ Cardinality(ReachableSinks) = 2

\* a plan was found, a source below the lowest required scope having been
\* pruned
C25_WitnessPruned ==
    /\ pc \in Final
    /\ pipes_to_run # <<>>
    /\ ReachableSinks # {}
    /\ \E s \in sources : \A i \in ReachableSinks : s.scope < sinks[i].scope

\* the single-pipeline search found the plan, a dearer source of the same
\* scope and feed type having been pruned
C25_WitnessCheapest ==
    /\ pc \in Final
    /\ Len(pipes_to_run) = 1
    /\ \E s \in sources :
          /\ s.scope = pipes_to_run[1].source.scope
          /\ s.feed_type = pipes_to_run[1].source.feed_type
          /\ s.cost > pipes_to_run[1].source.cost

-----------------------------------------------------------------------------
\* A check that declares known_results, run by a CheckRunner
\* (base.py:410-442).

\* result classes a check may declare and may report
ResultClasses == {"RedundantVersion", "UnstableOnly"}
ResultCounts == 0..2

\* CheckRunner.feed with one check whose feed gives the reporter the results
\* rs: the loop calls check.feed(item, reporter) and the check calls
\* reporter.add_report for each result; nothing in between looks at
\* check.known_results
CheckRunner_feed_results(snk, rs, st) ==
    [st EXCEPT !.delivered = @ \o rs]

\* runner = base.CheckRunner([check]); runner.start(r)
SinkInit ==
    /\ PlugIdle
    /\ RunnerIdle
    /\ CheckIdle
    /\ ReporterIdle
    /\ FilterIdle
    /\ ChecksetIdle
    /\ StateIdle
    /\ MainIdle
    /\ \E declared \in SUBSET ResultClasses :
           template = [known_results |-> declared]
    /\ delivered = <<>>
    /\ run = [stage |-> "started", fed |-> 0]

\* runner.feed(item, r): the check reports the results rs
SinkFeed ==
    /\ run.stage = "started"
    /\ run.fed < MaxItems
    /\ \E n \in ResultCounts : \E rs \in [1..n -> ResultClasses] :
          LET st == CheckRunner_feed_results(template, rs,
                        [delivered |-> delivered, raised |-> "none"])
          IN /\ delivered' = st.delivered
             /\ run' = [stage |-> IF st.raised = "none" THEN "started"
                                  ELSE st.raised,
                        fed |-> run.fed + 1]
    /\ UNCHANGED template
    /\ UNCHANGED otherThanSink

\* runner.finish(r)
SinkFinish ==
    /\ run.stage = "started"
    /\ run' = [run EXCEPT !.stage = "finished"]
    /\ UNCHANGED <<template, delivered>>
    /\ UNCHANGED otherThanSink

NextSink == SinkFeed \/ SinkFinish

SpecSink == SinkInit /\ [][NextSink]_vars

\* C26 (stated as claimed): the runner verifies known_results: no result of
\* a class outside the check's known_results is delivered to the reporter; the
\* run stops with an assertion error instead.
C26_Verified ==
    \A i \in 1..Len(delivered) : delivered[i] \in template.known_results

-----------------------------------------------------------------------------
\* The children of a MultiplexReporter and their own keyword filters.

\* the keywords argument child c was built with by Reporter.__init__: the
\* first child has no filter, the second accepts MetadataError only, the
\* third accepts nothing.  MultiplexReporter never reads it.
child_keywords(c) ==
    IF c = 1 THEN None
    ELSE IF c = 2 THEN Keywords({"MetadataError"})
    ELSE Keywords({})

\* the child's own filter accepts the result
ChildAccepts(c, r) ==
    ~child_keywords(c).given \/ r.class \in child_keywords(c).classes

\* C27 (stated as claimed): a child of a MultiplexReporter processes a result
\* only if the child's own keyword filter accepts the class of the result.
C27_ChildFilter ==
    (reporter.kls = "MultiplexReporter" /\ reporter.raised = "none") =>
        \A c \in 1..reporter.reporters :
            \A i \in 1..Len(child_events[c]) :
                child_events[c][i].op = "process_report" =>
                    ChildAccepts(c, child_events[c][i].result)

-----------------------------------------------------------------------------
\* What the results of one RedundantVersionReport.feed refer to.

\* the versions of the package set that are not live, by slot
NonLive(slot) ==
    {i \in 1..Len(pkgset) : ~pkgset[i].live /\ pkgset[i].slot = slot}

\* C28: in every RedundantVersion result of one feed, each entry of
\* later_versions is a non-live version of the result's slot strictly higher
\* than the result's version; the highest non-live version of a slot is never
\* reported, no live version is reported or listed, and no version is
\* reported twice.
C28_LaterVersions ==
    check = "RedundantVersionReport" =>
        /\ \A k \in 1..Len(emitted) :
              LET v == emitted[k].version
              IN /\ ~pkgset[v].live
                 /\ emitted[k].slot = pkgset[v].slot
                 /\ v # Max(NonLive(pkgset[v].slot))
                 /\ emitted[k].later_versions # <<>>
                 /\ \A n \in 1..Len(emitted[k].later_versions) :
                       LET j == emitted[k].later_versions[n]
                       IN /\ j > v
                          /\ ~pkgset[j].live
                          /\ pkgset[j].slot = pkgset[v].slot
        /\ \A k, l \in 1..Len(emitted) :
              emitted[k].version = emitted[l].version => k = l

\* version 1 is reported against version 2 only, although version 3 has the
\* same keywords: version 3 is live or of another slot
C28_Witness ==
    /\ check = "RedundantVersionReport"
    /\ Len(pkgset) = 3
    /\ pkgset[3].keywords = pkgset[1].keywords
    /\ pkgset[3].live \/ pkgset[3].slot # pkgset[1].slot
    /\ Len(emitted) = 1
    /\ emitted[1].version = 1
    /\ emitted[1].later_versions = <<2>>

\* ---------------------------------------------------------------------
\* One check object over several start/feed/finish cycles: pcheck.main
\* runs the same checks once per limiter.
\* ---------------------------------------------------------------------

MaxCycleCalls == 5

\* a call of the runner and the results the check reported during it
CycleCall(op, r, results) ==
    [op |-> op, raised |-> r.raised, results |-> results]

\* runner.start(r), in the first cycle or after an earlier finish
CycleStart ==
    /\ stage \in {"new", "finished"}
    /\ Len(calls) < MaxCycleCalls
    /\ LET r == CheckRunner_start(AllOk)
       IN /\ reports' = r.reports
          /\ metadata_errors' = r.errors
          /\ start_log' = r.log
          /\ faults' = r.faults
          /\ calls' = Append(calls, CycleCall("start", r, <<>>))
          /\ stage' = IF r.raised = "none" THEN "started" ELSE "failed"
    /\ UNCHANGED <<tree, debug, raised_meta, feed_log, finish_log>>
    /\ UNCHANGED <<check, stable_arches, pkgset, emitted, self_arch_restricts>>
    /\ UNCHANGED otherThanCheck

\* runner.feed(data, r): the same package set again
CycleFeed ==
    /\ stage = "started"
    /\ Len(calls) < MaxCycleCalls
    /\ LET answer == check_feed(check, pkgset, self_arch_restricts)
           oracle == [p \in LeafPaths(tree) |->
                         IF answer.raised = "none" THEN "ok" ELSE answer.raised]
           r == CheckRunner_feed(oracle)
       IN /\ reports' = r.reports
          /\ metadata_errors' = r.errors
          /\ raised_meta' = raised_meta \cup MetaRaised(r)
          /\ feed_log' = r.log
          /\ faults' = r.faults
          /\ calls' = Append(calls, CycleCall("feed", r, answer.results))
          /\ stage' = IF r.raised = "none" THEN "started" ELSE "failed"
          /\ emitted' = emitted \o answer.results
    /\ UNCHANGED <<tree, debug, start_log, finish_log>>
    /\ UNCHANGED <<check, stable_arches, pkgset, self_arch_restricts>>
    /\ UNCHANGED otherThanCheck

\* runner.finish(r)
CycleFinish ==
    /\ stage = "started"
    /\ Len(calls) < MaxCycleCalls
    /\ LET r == CheckRunner_finish(AllOk)
       IN /\ reports' = r.reports
          /\ metadata_errors' = r.errors
          /\ finish_log' = r.log
          /\ faults' = r.faults
          /\ calls' = Append(calls, CycleCall("finish", r, <<>>))
          /\ stage' = IF r.raised = "none" THEN "finished" ELSE "failed"
    /\ self_arch_restricts' = check_finish(check, self_arch_restricts)
    /\ UNCHANGED <<tree, debug, raised_meta, start_log, feed_log>>
    /\ UNCHANGED <<check, stable_arches, pkgset, emitted>>
    /\ UNCHANGED otherThanCheck

NextCycles ==
    \/ CycleStart
    \/ CycleFeed
    \/ CycleFinish

SpecCycles == UnstableInit /\ [][NextCycles]_vars

\* the calls that fed the package set to the check
FeedCalls == {i \in 1..Len(calls) : calls[i].op = "feed"}
\* a finish was called before call i
AfterFinish(i) == \E j \in 1..(i - 1) : calls[j].op = "finish"

\* C29: every feed of the package set makes UnstableOnlyReport report the
\* same results, in the first cycle and in a cycle begun after a finish.
C29_SameResults ==
    \A i \in FeedCalls : \A j \in FeedCalls :
        calls[i].results = calls[j].results

\* two feeds of one cycle report the same results, some of them
C29_WitnessSameCycle ==
    \E i \in FeedCalls :
        /\ i + 1 \in FeedCalls
        /\ ~AfterFinish(i)
        /\ calls[i].results # <<>>
        /\ calls[i + 1].results = calls[i].results

\* up to the first finish every feed reports the same results
SameResultsBeforeFinish ==
    \A i \in FeedCalls : \A j \in FeedCalls :
        (~AfterFinish(i) /\ ~AfterFinish(j)) =>
            calls[i].results = calls[j].results
\* a feed after a finish reports nothing although an earlier feed reported
ReportsNothingAfterFinish ==
    \E i \in FeedCalls : \E j \in FeedCalls :
        /\ ~AfterFinish(i) /\ calls[i].results # <<>>
        /\ AfterFinish(j) /\ calls[j].results = <<>>

\* ---------------------------------------------------------------------
\* The four text reporters given results of every threshold, the ebuild
\* feed among them.
\* ---------------------------------------------------------------------

\* a versioned result and a result of the ebuild feed, next to Results
RenderResults ==
    Results \cup {Result("UnstableOnly", versioned_feed, "b", "q", "2"),
                  Result("MetadataError", ebuild_feed, "a", "p", "1"),
                  Result("UnstableOnly", ebuild_feed, "b", "q", "2")}
RenderReporters ==
    {Reporter_init(kls, None, v, 0) :
        kls \in {"StrReporter", "FancyReporter", "JsonReporter",
                 "XmlReporter"},
        v \in VerbosityArgs}

RenderInit ==
    /\ PlugIdle
    /\ RunnerIdle
    /\ CheckIdle
    /\ FilterIdle
    /\ RestIdle
    /\ reporter \in RenderReporters
    /\ first_report = TRUE
    /\ key = <<>>
    /\ out = <<>>
    /\ events = <<>>
    /\ processed = <<>>
    /\ child_events = <<>>

\* reporter.add_report(result), the result of any threshold
RenderAddReport ==
    /\ Callable
    /\ \E r \in RenderResults :
          LET done_call == add_report(reporter, r, ReporterState)
          IN /\ first_report' = done_call.st.first_report
             /\ key' = done_call.st.key
             /\ out' = done_call.st.out
             /\ processed' = done_call.st.processed
             /\ child_events' = done_call.st.child_events
             /\ events' = Append(events, [op |-> "add_report",
                                          result |-> done_call.result,
                                          raised |-> done_call.raised])
    /\ UNCHANGED reporter
    /\ UNCHANGED otherThanReporter

NextRender ==
    \/ ReporterStart
    \/ RenderAddReport
    \/ ReporterFinish

SpecRender == RenderInit /\ [][NextRender]_vars

\* the result of the versioned feed with the coordinates of r
AsVersioned(r) ==
    IF r.threshold = ebuild_feed THEN [r EXCEPT !.threshold = versioned_feed]
    ELSE r
\* the result as it was before add_report stamped it
Unstamped(r) == [r EXCEPT !.stamped = FALSE, !.verbosity = 0]
NewReporterState ==
    [first_report |-> TRUE, key |-> <<>>, out |-> <<>>,
     processed |-> <<>>, child_events |-> <<>>]
\* the state of the reporter after the same calls, every result of the
\* ebuild feed replaced by the versioned result of its coordinates
RECURSIVE VersionedRun(_, _)
VersionedRun(evs, st) ==
    IF evs = <<>> THEN st
    ELSE LET ev == Head(evs)
         IN VersionedRun(Tail(evs),
               IF ev.op = "add_report"
               THEN add_report(reporter, AsVersioned(Unstamped(ev.result)),
                               st).st
               ELSE reporter_event(reporter, ev.op, st))
EbuildGiven == \E i \in 1..Len(events) : events[i].result.threshold = ebuild_feed

\* C30: a reporter of any of the four kinds writes for a result of the
\* ebuild feed what it writes for the versioned result of the same category,
\* package and version.
C30_SameCoordinates ==
    out = VersionedRun(events, NewReporterState).out

\* the JSON and XML reporters do write the same for both
C30_JsonXml ==
    reporter.kls \in {"JsonReporter", "XmlReporter"} => C30_SameCoordinates
C30_WitnessJsonXml ==
    /\ reporter.kls \in {"JsonReporter", "XmlReporter"}
    /\ EbuildGiven
    /\ \E i \in 1..Len(out) : out[i].prefix = <<"a", "p", "1">>

=============================================================================
